---- MODULE Spec2Model ----
(***************************************************************************)
(* A model of the DSGX converter (zeta0134/dsgx-converter): the chunk      *)
(* container writer, the fixed-length string encoder, the material-flag    *)
(* parser, the bit-packing primitive, the GX command Emitter and the       *)
(* Writer that compiles a scene graph into a sequence of chunks.           *)
(*                                                                         *)
(* Byte strings are sequences of naturals 0..255, text strings are         *)
(* sequences of ASCII codes, and every instruction parameter is the four   *)
(* byte little-endian string that struct.pack produces.                    *)
(***************************************************************************)
EXTENDS Integers, Sequences, FiniteSets, TLC

VARIABLES
    fp,          \* the output stream: the byte strings handed to fp.write, in order
    err,         \* the exception that ended the run, or "none"
    call,        \* arguments of the function call under test (function-level specs)
    ret,         \* <<>> until the call under test has returned, then <<value>>
    gx,          \* the Emitter: commands, offset, cycles
    model,       \* the scene graph handed to Writer.write
    vtx10,       \* the vtx10 argument of Writer.write
    pc,          \* the position of Writer.write
    mesh_i,      \* the position of the loop over model.meshes
    group_offsets,    \* Writer.group_offsets
    texture_offsets,  \* Writer.texture_offsets
    scale_factor      \* Writer.scale_factor

writer_vars == <<model, vtx10, pc, mesh_i, group_offsets, texture_offsets, scale_factor>>

vars == <<fp, err, call, ret, gx, writer_vars>>

\* The Writer is not running (function-level specifications).
WriterIdle ==
    /\ model = << >>
    /\ vtx10 = FALSE
    /\ pc = "idle"
    /\ mesh_i = 0
    /\ group_offsets = << >>
    /\ texture_offsets = << >>
    /\ scale_factor = << >>

(***************************************************************************)
(* Bounds of the model                                                     *)
(***************************************************************************)
MaxPayloadLen == 9      \* payload byte lengths 0..MaxPayloadLen in SpecChunk
MaxChunkNameLen == 5    \* chunk name lengths 0..MaxChunkNameLen in SpecChunk
MaxWrites == 2          \* chunk writes per run in SpecChunk
MaxStrLen == 34         \* text lengths 0..MaxStrLen in SpecString
MaxNameLen == 5         \* material name lengths 0..MaxNameLen in SpecFlags
MaxFieldWidth == 16     \* bit-field widths 1..MaxFieldWidth in SpecPack
MaxCommands == 3        \* instructions per Emitter in SpecEmitter
MaxPolys == 2           \* polygons per mesh in Spec
MaxMeshes == 2          \* meshes per model in Spec
MaxAnimations == 2      \* animations per model in Spec
MaxFrames == 2          \* frames per animation in Spec

(***************************************************************************)
(* Generic helpers                                                         *)
(***************************************************************************)
\* LET x == value IN In(x), the value being written once.
Let(value, In(_)) == In(value)

Pow2(n) == 2 ^ n

Zeros(n) == [i \in 1..n |-> 0]

\* struct.pack("<I", v) / struct.pack("<i", v): four little-endian bytes.
\* \div is floor division, so a negative v yields its two's complement.
LE32(v) == << v % 256, (v \div 256) % 256, (v \div 65536) % 256,
              (v \div 16777216) % 256 >>

\* The inverse reading of a little-endian word (values below 2^31 only).
WordAt(bytes, i) == bytes[i] + 256 * bytes[i + 1] + 65536 * bytes[i + 2]
                    + 16777216 * bytes[i + 3]

\* The text of length n whose i-th character is the letter 'A' + (i + k) mod 26.
Text(n, k) == [i \in 1..n |-> 65 + ((i + k) % 26)]

\* Python values that are not text: None and True.
None == << -1 >>
PyTrue == << -2 >>

\* Bitwise and / or of two naturals (Python's & and | on non-negative ints).
RECURSIVE BitAnd(_, _)
BitAnd(a, b) ==
    IF a = 0 \/ b = 0 THEN 0
    ELSE (a % 2) * (b % 2) + 2 * BitAnd(a \div 2, b \div 2)

RECURSIVE BitOr(_, _)
BitOr(a, b) ==
    IF a = 0 THEN b
    ELSE IF b = 0 THEN a
    ELSE (IF a % 2 = 1 \/ b % 2 = 1 THEN 1 ELSE 0) + 2 * BitOr(a \div 2, b \div 2)

\* str.split(sep) for a one-character separator: the list of the pieces
\* between separators (one more piece than there are separators).
RECURSIVE Split(_, _)
Split(s, sep) ==
    IF \A i \in 1..Len(s) : s[i] # sep THEN << s >>
    ELSE LET i == CHOOSE j \in 1..Len(s) :
                      s[j] = sep /\ \A k \in 1..(j - 1) : s[k] # sep
         IN  << SubSeq(s, 1, i - 1) >> \o Split(SubSeq(s, i + 1, Len(s)), sep)

\* d[key] = value on a dict modelled as a function.
DictSet(d, key, value) ==
    [k \in (DOMAIN d) \cup {key} |-> IF k = key THEN value ELSE d[k]]

EmptyDict == [k \in {} |-> 0]

(***************************************************************************)
(* Real numbers are exact fractions n/d with d > 0; int() truncates        *)
(* toward zero.                                                            *)
(***************************************************************************)
R(n, d) == [n |-> n, d |-> d]

RECURSIVE GCD(_, _)
GCD(a, b) == IF b = 0 THEN a ELSE GCD(b, a % b)

\* The same real in lowest terms.
Reduced(n, d) ==
    LET g == GCD(IF n < 0 THEN -n ELSE n, d)
    IN  [n |-> n \div g, d |-> d \div g]

RMul(a, b) ==
    LET x == Reduced(a.n, b.d)
        y == Reduced(b.n, a.d)
    IN  Reduced(x.n * y.n, x.d * y.d)

\* int(n / d) for an integer n and a positive integer d.
TruncDiv(n, d) == IF n >= 0 THEN n \div d ELSE -((-n) \div d)

\* int(x * 2 ** k) for a real x.
ScaledInt(x, k) ==
    LET g == GCD(Pow2(k), x.d)
    IN  TruncDiv(x.n * (Pow2(k) \div g), x.d \div g)

to_fixed_point(float_value, fraction) == ScaledInt(float_value, fraction)

\* struct.pack("<I", lo | (hi << 16)) for two 16-bit halves.
LE16x2(lo, hi) == << lo % 256, (lo \div 256) % 256, hi % 256, (hi \div 256) % 256 >>

\* euclid.Matrix4(): the identity, components a..p in order.
IdentityMatrix == [i \in 1..16 |-> IF i \in {1, 6, 11, 16} THEN R(1, 1) ELSE R(0, 1)]

(***************************************************************************)
(* dsgx.py: class Emitter                                                  *)
(***************************************************************************)
Emitter == [commands |-> << >>, offset |-> 0, cycles |-> 0]

\* Emitter.command followed by the caller's  self.cycles += cost.
Emitter_command(e, instruction, parameters, cost) ==
    [commands |-> Append(e.commands, [instruction |-> instruction, params |-> parameters]),
     offset |-> e.offset + 1 + Len(parameters),
     cycles |-> e.cycles + cost]

vtxs_triangle == 0
vtxs_quad == 1

Emitter_begin_vtxs(e, format) ==
    Emitter_command(e, 64, << LE32(format % 4) >>, 1)

Emitter_vtx_16(e, x, y, z) ==
    Emitter_command(e, 35,
        << LE16x2(ScaledInt(x, 12) % 65536, ScaledInt(y, 12) % 65536),
           LE32(ScaledInt(z, 12) % 65536) >>, 9)

Emitter_vtx_10_cost9(e, x, y, z) ==
    Emitter_command(e, 36,
        << LE32((ScaledInt(x, 6) % 1024) + (ScaledInt(y, 6) % 1024) * 1024
                + (ScaledInt(z, 6) % 1024) * 1048576) >>, 9)

Emitter_vtx_10(e, x, y, z) ==
    Emitter_command(e, 36,
        << LE32((ScaledInt(x, 6) % 1024) + (ScaledInt(y, 6) % 1024) * 1024
                + (ScaledInt(z, 6) % 1024) * 1048576) >>, 8)

\* Emitter.polygon_attr with mode, front, back, new_depth,
\* farplane_intersecting, depth_test and fog_enable at their defaults
\* (0, 1, 0, 0, 1, 0, 1); dot_polygons is not encoded.
Emitter_polygon_attr(e, light0, light1, light2, light3, alpha, polygon_id) ==
    LET attr == BitAnd(light0, 1)
                + (light1 % 2) * 2
                + (light2 % 2) * 4
                + (light3 % 2) * 8
                + (0 % 4) * 16
                + (0 % 2) * 64
                + (1 % 2) * 128
                + (0 % 2) * 2048
                + (1 % 2) * 4096
                + (0 % 2) * 16384
                + (1 % 2) * 32768
                + (alpha % 32) * 65536
                + (polygon_id % 64) * 16777216
    IN  Emitter_command(e, 41, << LE32(attr) >>, 1)

\* Emitter.color; the three components are integers.
Emitter_color(e, red, green, blue, use256) ==
    LET r == IF use256 THEN TruncDiv(red, 8) ELSE red
        g == IF use256 THEN TruncDiv(green, 8) ELSE green
        b == IF use256 THEN TruncDiv(blue, 8) ELSE blue
    IN  Emitter_command(e, 32, << LE32((r % 32) + (g % 32) * 32 + (b % 32) * 1024) >>, 1)

\* int((x * 0.95) * 2 ** 9)
NormalComponent(x) == TruncDiv(x.n * 95 * 512, x.d * 100)

Emitter_normal(e, x, y, z) ==
    Emitter_command(e, 33,
        << LE32((NormalComponent(x) % 1024) + (NormalComponent(y) % 1024) * 1024
                + (NormalComponent(z) % 1024) * 1048576) >>, 9)

\* One colour component of dif_amb / spe_emi: int(x / 8) in 256-colour mode.
ColorInt(x, use256) == IF use256 THEN TruncDiv(x.n, x.d * 8) ELSE x.n

\* The shared body of dif_amb and spe_emi: two colour triples (real
\* components) and the flag at bit 15.
ColorPairWord(first, second, flag, use256) ==
    LET f == [i \in 1..3 |-> ColorInt(first[i], use256)]
        g == [i \in 1..3 |-> ColorInt(second[i], use256)]
    IN  LE16x2((f[1] % 32) + (f[2] % 32) * 32 + (f[3] % 32) * 1024
                   + (IF flag THEN 1 ELSE 0) * 32768,
               (g[1] % 32) + (g[2] % 32) * 32 + (g[3] % 32) * 1024)

Emitter_dif_amb(e, diffuse, ambient, setvertex, use256) ==
    Emitter_command(e, 48, << ColorPairWord(diffuse, ambient, setvertex, use256) >>, 4)

Emitter_spe_emi(e, specular, emit, use_specular_table, use256) ==
    Emitter_command(e, 49, << ColorPairWord(specular, emit, use_specular_table, use256) >>, 4)

\* self.command(0x11) uses the default parameter list, which stays empty.
Emitter_push(e) == Emitter_command(e, 17, << >>, 17)

Emitter_pop(e) == Emitter_command(e, 18, << LE32(1) >>, 36)

Emitter_mtx_mult_4x4(e, matrix) ==
    Emitter_command(e, 24, [i \in 1..16 |-> LE32(to_fixed_point(matrix[i], 12))], 35)

Emitter_mtx_scale(e, sx, sy, sz) ==
    Emitter_command(e, 27,
        << LE32(to_fixed_point(sx, 12)), LE32(to_fixed_point(sy, 12)),
           LE32(to_fixed_point(sz, 12)) >>, 22)

Emitter_texcoord(e, u, v) ==
    Emitter_command(e, 34,
        << LE16x2(ScaledInt(u, 4) % 65536, ScaledInt(v, 4) % 65536) >>, 1)

RECURSIVE texture_size_shift(_)
texture_size_shift(size) ==
    IF 8 < size THEN 1 + texture_size_shift(size \div 2) ELSE 0

\* Emitter.teximage_param with palette_transparency, transform_mode,
\* u_repeat, v_repeat, u_flip, v_flip at their defaults (0, 0, 1, 1, 0, 0).
Emitter_teximage_param(e, offset, width, height, format) ==
    LET width_index == texture_size_shift(width)
        height_index == texture_size_shift(height)
        attr == (TruncDiv(offset, 8) % 65536)
                + (1 % 2) * 65536
                + (1 % 2) * 131072
                + (0 % 2) * 262144
                + (0 % 2) * 524288
                + (width_index % 8) * 1048576
                + (height_index % 8) * 8388608
                + (format % 8) * 67108864
                + (0 % 2) * 536870912
                + (0 % 4) * 1073741824
    IN  Emitter_command(e, 42, << LE32(attr) >>, 1)

Emitter_texpllt_base(e, offset, texture_format) ==
    LET shifted == IF texture_format = 2 THEN offset \div 256 ELSE offset \div 65536
    IN  Emitter_command(e, 43, << LE32(shifted % 4096) >>, 1)

\* The most recent instruction: what the instruction methods return.
LastCommand(e) == e.commands[Len(e.commands)]

(***************************************************************************)
(* dsgx.py: chunk framing                                                  *)
(***************************************************************************)
WORD_SIZE_BYTES == 4

padding_to_skewed(byte_count, alignment) ==
    alignment - (byte_count % alignment)

padding_to(byte_count, alignment) ==
    IF byte_count % alignment # 0 THEN alignment - (byte_count % alignment) ELSE 0

\* The assertion at the head of wrap_chunk.
wrap_chunk_raises(name) == Len(name) # 4

\* The byte string wrap_chunk returns when its assertion passes:
\* '< 4s I %ds %dx' % (len(data), padding_size_bytes).
wrap_chunk(name, data) ==
    LET padding_size_bytes == padding_to(Len(data), WORD_SIZE_BYTES)
        padded_payload_size_words ==
            (Len(data) + padding_size_bytes) \div WORD_SIZE_BYTES
    IN  name \o LE32(padded_payload_size_words) \o data \o Zeros(padding_size_bytes)

\* fp.write(wrap_chunk(name, data)): the argument is evaluated first, so an
\* assertion failure leaves the stream as it was.
fp_write_chunk_unguarded(stream, name, data) ==
    [fp |-> Append(stream, wrap_chunk(name, data)), err |-> "none"]

fp_write_chunk(stream, name, data) ==
    IF wrap_chunk_raises(name)
    THEN [fp |-> stream, err |-> "AssertionError"]
    ELSE [fp |-> Append(stream, wrap_chunk(name, data)), err |-> "none"]

(***************************************************************************)
(* SpecChunk: the chunk writer applied to arbitrary names and payloads     *)
(***************************************************************************)
ChunkNames == { Text(n, k) : n \in 0..MaxChunkNameLen, k \in {0, 3} }
Payloads == { [i \in 1..n |-> b] : n \in 0..MaxPayloadLen, b \in {1, 255} }

InitChunk ==
    /\ fp = <<>>
    /\ err = "none"
    /\ call = <<>>
    /\ ret = <<>>
    /\ gx = Emitter
    /\ WriterIdle

WriteChunk ==
    /\ err = "none"
    /\ Len(fp) < MaxWrites
    /\ \E name \in ChunkNames, data \in Payloads :
          LET r == fp_write_chunk(fp, name, data)
          IN  /\ call' = <<name, data>>
              /\ fp' = r.fp
              /\ err' = r.err
    /\ UNCHANGED <<ret, gx, writer_vars>>

NextChunk == WriteChunk

SpecChunk == InitChunk /\ [][NextChunk]_vars

(***************************************************************************)
(* C1: every chunk wrap_chunk returns is the 4-byte name, the little-endian *)
(* word count ceil(L/4), the L payload bytes and 0..3 zero bytes of         *)
(* padding, so that its total length is a multiple of 4 (L = 0 included).   *)
(***************************************************************************)
CeilDiv(n, d) == CHOOSE q \in 0..n : d * q >= n /\ (q = 0 \/ d * (q - 1) < n)

C1_ChunkAlignment ==
    (call # <<>> /\ err = "none") =>
        LET name == call[1]
            data == call[2]
            L == Len(data)
            chunk == fp[Len(fp)]
            pad == Len(chunk) - 8 - L
        IN  /\ Len(chunk) % 4 = 0
            /\ pad \in 0..3
            /\ \A i \in 1..pad : chunk[8 + L + i] = 0
            /\ SubSeq(chunk, 1, 4) = name
            /\ WordAt(chunk, 5) = CeilDiv(L, 4)
            /\ SubSeq(chunk, 9, 8 + L) = data

C1_Witness ==
    /\ err = "none"
    /\ Len(fp) = 2
    /\ Len(fp[1]) = 8
    /\ Len(call[2]) % 4 = 1
    /\ Len(fp[2]) = 8 + Len(call[2]) + 3

(***************************************************************************)
(* C6: a chunk write raises exactly when the chunk name is not 4            *)
(* characters long, and a raising write adds nothing to the output stream:  *)
(* the chunks written before it stay, a passing write adds one chunk.       *)
(***************************************************************************)
C6_BadNameWritesNothing ==
    [][ /\ (Len(call'[1]) # 4) <=> (err' = "AssertionError")
        /\ (err' = "AssertionError") => (fp' = fp)
        /\ (err' = "none") => (Len(fp') = Len(fp) + 1 /\ SubSeq(fp', 1, Len(fp)) = fp)
      ]_vars

C6_Witness ==
    /\ err = "AssertionError"
    /\ Len(call[1]) # 4
    /\ Len(fp) = 1

(***************************************************************************)
(* dsgx.py: fixed-length strings                                           *)
(***************************************************************************)
\* struct.pack("<32s", ...): no room kept for the terminator.
to_dsgx_string_unterminated(string) ==
    LET s == IF string = None THEN << >> ELSE string
    IN  IF Len(s) >= 32 THEN SubSeq(s, 1, 32) ELSE s \o Zeros(32 - Len(s))

\* struct.pack("<31sx", string.encode('ascii')): '31s' cuts the bytes to 31
\* or pads them with zero bytes to 31, 'x' adds one zero byte.
to_dsgx_string(string) ==
    LET s == IF string = None THEN << >> ELSE string
        field == IF Len(s) >= 31 THEN SubSeq(s, 1, 31) ELSE s \o Zeros(31 - Len(s))
    IN  field \o << 0 >>

(***************************************************************************)
(* SpecString: to_dsgx_string applied to None and to texts of every length *)
(***************************************************************************)
StringInputs == { Text(n, k) : n \in 0..MaxStrLen, k \in {0, 7} } \cup { None }

InitString ==
    /\ fp = <<>>
    /\ err = "none"
    /\ gx = Emitter
    /\ WriterIdle
    /\ call \in { << s >> : s \in StringInputs }
    /\ ret = <<>>

CallToDsgxString ==
    /\ ret = <<>>
    /\ ret' = << to_dsgx_string(call[1]) >>
    /\ UNCHANGED <<fp, err, call, gx, writer_vars>>

NextString == CallToDsgxString

SpecString == InitString /\ [][NextString]_vars

(***************************************************************************)
(* C7: to_dsgx_string returns exactly 32 bytes for None and for every text: *)
(* the bytes of the text in order, cut to the 31 that fit before the        *)
(* terminator when there are more, and zero bytes from there up to 32;      *)
(* None gives what the empty text gives.                                    *)
(***************************************************************************)
C7_FixedLengthString ==
    (ret # <<>>) =>
        LET s == IF call[1] = None THEN << >> ELSE call[1]
            r == ret[1]
            kept == IF Len(s) > 31 THEN 31 ELSE Len(s)
        IN  /\ Len(r) = 32
            /\ \A i \in 1..kept : r[i] = s[i]
            /\ \A i \in (kept + 1)..32 : r[i] = 0

C7_Witness ==
    /\ ret # <<>>
    /\ call[1] # None
    /\ Len(call[1]) = 33
    /\ ret[1][31] = call[1][31]
    /\ ret[1][32] = 0

(***************************************************************************)
(* dsgx.py / geometry_command.py: bit packing                              *)
(***************************************************************************)
\* One (key, value) pair of pack_bits; the key is << bit >> for a single bit
\* position and << lower, upper >> for an inclusive range.
pack_bits_mask(bit_count) == (bit_count * Pow2(bit_count)) - 1

pack_bits_field(pair) ==
    LET key == pair[1]
        value == pair[2]
        lower == key[1]
        upper == IF Len(key) = 1 THEN key[1] ELSE key[2]
        bit_count == upper - lower + 1
        mask == pack_bits_mask(bit_count)
    IN  BitAnd(value, mask) * Pow2(lower)

RECURSIVE pack_bits_from(_, _)
pack_bits_from(packed_bits, bit_value_pairs) ==
    IF bit_value_pairs = << >> THEN packed_bits
    ELSE pack_bits_from(BitOr(packed_bits, pack_bits_field(Head(bit_value_pairs))),
                        Tail(bit_value_pairs))

pack_bits(bit_value_pairs) == pack_bits_from(0, bit_value_pairs)

(***************************************************************************)
(* SpecPack: pack_bits applied to one range field of every width, alone or *)
(* followed by a single-bit field above it                                 *)
(***************************************************************************)
FieldValues(w) == { 0, 1, Pow2(w) - 1, Pow2(w), Pow2(w) + 1, Pow2(w + 1) + Pow2(w - 1) }

PackInputs ==
    LET first == UNION { { << << lower, lower + w - 1 >>, v >> : v \in FieldValues(w) } :
                           lower \in {0, 3}, w \in 1..MaxFieldWidth }
        high == { << << 29 >>, b >> : b \in {0, 1} }
    IN  { << f >> : f \in first } \cup { << f, h >> : f \in first, h \in high }

InitPack ==
    /\ fp = <<>>
    /\ err = "none"
    /\ gx = Emitter
    /\ WriterIdle
    /\ call \in { << pairs >> : pairs \in PackInputs }
    /\ ret = <<>>

CallPackBits ==
    /\ ret = <<>>
    /\ ret' = << pack_bits(call[1]) >>
    /\ UNCHANGED <<fp, err, call, gx, writer_vars>>

NextPack == CallPackBits

SpecPack == InitPack /\ [][NextPack]_vars

(***************************************************************************)
(* C5: pack_bits returns the word in which every field holds its value     *)
(* modulo 2^(upper - lower + 1), shifted to bit `lower`: no bit of a value  *)
(* outside its field width reaches the result, for widths 1 to 16.          *)
(***************************************************************************)
FieldLower(pair) == pair[1][1]
FieldUpper(pair) == pair[1][Len(pair[1])]

RECURSIVE SumOfFields(_)
SumOfFields(pairs) ==
    IF pairs = << >> THEN 0
    ELSE LET pair == Head(pairs)
             width == FieldUpper(pair) - FieldLower(pair) + 1
         IN  (pair[2] % Pow2(width)) * Pow2(FieldLower(pair)) + SumOfFields(Tail(pairs))

C5_PackBitsMasksToWidth ==
    (ret # <<>>) => ret[1] = SumOfFields(call[1])

(***************************************************************************)
(* dsgx.py: material flags                                                 *)
(***************************************************************************)
PIPE == 124
COMMA == 44
EQUALS == 61

\* One flag of the flags string: parts = flag.split("="), the key is parts[0]
\* and the value parts[1] when there is one, True otherwise.
flag_entry(flag) ==
    LET parts == Split(flag, EQUALS)
    IN  [name |-> parts[1], value |-> IF Len(parts) > 1 THEN parts[2] ELSE PyTrue]

\* The dict built from the flags of a flags string, in order (a later flag
\* of the same name replaces the earlier one).
RECURSIVE flags_dict(_, _)
flags_dict(flags, flag_list) ==
    IF flag_list = << >> THEN flags
    ELSE LET e == flag_entry(Head(flag_list))
         IN  flags_dict(DictSet(flags, e.name, e.value), Tail(flag_list))

parse_material_flags_new(material_name) ==
    IF \A i \in 1..Len(material_name) : material_name[i] # PIPE
    THEN EmptyDict
    ELSE LET flags_string == Split(material_name, PIPE)[1]
         IN  flags_dict(EmptyDict, Split(flags_string, COMMA))

\* The flags string taken as everything before the last pipe.
parse_material_flags_last_pipe(material_name) ==
    LET sections == Split(material_name, PIPE)
    IN  IF Len(sections) = 1 THEN EmptyDict
        ELSE LET last == CHOOSE i \in 1..Len(material_name) :
                            /\ material_name[i] = PIPE
                            /\ \A j \in (i + 1)..Len(material_name) : material_name[j] # PIPE
             IN  flags_dict(EmptyDict, Split(SubSeq(material_name, 1, last - 1), COMMA))

\* The decorated function returns what this body returns.
parse_material_flags(material_name) ==
    LET sections == Split(material_name, PIPE)
    IN  IF Len(sections) = 1 THEN EmptyDict
        ELSE flags_dict(EmptyDict, Split(sections[1], COMMA))

\* reconcile(parse_material_flags_new): the assertion that both bodies agree.
parse_material_flags_reconciled(material_name) ==
    parse_material_flags(material_name) = parse_material_flags_new(material_name)

(***************************************************************************)
(* SpecFlags: parse_material_flags applied to every short material name    *)
(* over the alphabet  a = , |                                              *)
(***************************************************************************)
FlagAlphabet == { 97, EQUALS, COMMA, PIPE }

FlagNames == UNION { [1..n -> FlagAlphabet] : n \in 0..MaxNameLen }

InitFlags ==
    /\ fp = <<>>
    /\ err = "none"
    /\ gx = Emitter
    /\ WriterIdle
    /\ call \in { << name >> : name \in FlagNames }
    /\ ret = <<>>

CallParseMaterialFlags ==
    /\ ret = <<>>
    /\ ret' = << parse_material_flags(call[1]) >>
    /\ err' = IF parse_material_flags_reconciled(call[1]) THEN "none" ELSE "AssertionError"
    /\ UNCHANGED <<fp, call, gx, writer_vars>>

NextFlags == CallParseMaterialFlags

SpecFlags == InitFlags /\ [][NextFlags]_vars

(***************************************************************************)
(* C10: what the flags of a material name are, stated on positions.  The   *)
(* flags text is the part of the name before a chosen pipe; its items are  *)
(* the maximal comma-free pieces; an item's key is its text before its     *)
(* first "=", its value the text between its first and second "=" (True    *)
(* when it has no "="); the last item of a key gives the key's value.      *)
(***************************************************************************)
Positions(s, c) == { i \in 1..Len(s) : s[i] = c }

\* The items of text t as << start, end >> position pairs (end = start - 1
\* for an empty item).
Items(t) ==
    { << i, j >> \in (1..(Len(t) + 1)) \X (0..Len(t)) :
          /\ j >= i - 1
          /\ (i = 1 \/ t[i - 1] = COMMA)
          /\ (j = Len(t) \/ t[j + 1] = COMMA)
          /\ \A k \in i..j : t[k] # COMMA }

ItemText(t, item) == SubSeq(t, item[1], item[2])

ItemKey(x) ==
    IF Positions(x, EQUALS) = {} THEN x
    ELSE SubSeq(x, 1, (CHOOSE i \in Positions(x, EQUALS) :
                          \A j \in Positions(x, EQUALS) : i <= j) - 1)

ItemValue(x) ==
    LET eqs == Positions(x, EQUALS)
    IN  IF eqs = {} THEN PyTrue
        ELSE LET first == CHOOSE i \in eqs : \A j \in eqs : i <= j
                 rest == eqs \ {first}
                 stop == IF rest = {} THEN Len(x) + 1
                         ELSE CHOOSE i \in rest : \A j \in rest : i <= j
             IN  SubSeq(x, first + 1, stop - 1)

FlagsOfText(t) ==
    LET keys == { ItemKey(ItemText(t, it)) : it \in Items(t) }
    IN  [k \in keys |->
            LET mine == { it \in Items(t) : ItemKey(ItemText(t, it)) = k }
                last == CHOOSE it \in mine : \A o \in mine : o[1] <= it[1]
            IN  ItemValue(ItemText(t, last))]

FirstPipe(name) == CHOOSE i \in Positions(name, PIPE) : \A j \in Positions(name, PIPE) : i <= j
FinalPipe(name) == CHOOSE i \in Positions(name, PIPE) : \A j \in Positions(name, PIPE) : j <= i

\* C10 as claimed: the flags are those of the text before the FINAL pipe of
\* the name, and the empty mapping when the name has no pipe.
C10_FlagsBeforeFinalPipe ==
    (ret # <<>>) =>
        LET name == call[1]
        IN  IF Positions(name, PIPE) = {} THEN ret[1] = EmptyDict
            ELSE ret[1] = FlagsOfText(SubSeq(name, 1, FinalPipe(name) - 1))

\* C10 as amended: the flags are those of the text before the FIRST pipe of
\* the name, and the empty mapping when the name has no pipe.
C10_FlagsBeforeFirstPipe ==
    (ret # <<>>) =>
        LET name == call[1]
        IN  IF Positions(name, PIPE) = {} THEN ret[1] = EmptyDict
            ELSE ret[1] = FlagsOfText(SubSeq(name, 1, FirstPipe(name) - 1))

\* "a=a|a|": two pipes, one flag with a text value.
C10_Witness ==
    /\ ret # <<>>
    /\ Cardinality(Positions(call[1], PIPE)) = 2
    /\ DOMAIN ret[1] = { << 97 >> }
    /\ ret[1][<< 97 >>] = << 97 >>

(***************************************************************************)
(* dsgx.py: the pure instruction encoders built on pack_bits               *)
(***************************************************************************)
command(instruction, parameters) == [instruction |-> instruction, params |-> parameters]

\* teximage_param(width, height, offset, format) with the remaining
\* arguments at their defaults.
teximage_param(width, height, offset, format) ==
    LET width_index == texture_size_shift(width)
        height_index == texture_size_shift(height)
        attr == pack_bits(<<
            << << 0, 15 >>, TruncDiv(offset, 8) >>,
            << << 16 >>, 1 >>,
            << << 17 >>, 1 >>,
            << << 18 >>, 0 >>,
            << << 19 >>, 0 >>,
            << << 20, 22 >>, width_index >>,
            << << 23, 25 >>, height_index >>,
            << << 26, 28 >>, format >>,
            << << 29 >>, 0 >>,
            << << 30, 31 >>, 0 >> >>)
    IN  command(42, << LE32(attr) >>)

texpllt_base(offset, texture_format) ==
    LET shift == IF texture_format = 2 THEN 8 ELSE 16
    IN  command(43, << LE32(pack_bits(<< << << 0, 12 >>, offset \div Pow2(shift) >> >>)) >>)

\* polygon_attr(light0..light3, alpha, polygon_id) with the remaining
\* arguments at their defaults.
polygon_attr(light0, light1, light2, light3, alpha, polygon_id) ==
    LET attr == pack_bits(<<
            << << 0 >>, light0 >>,
            << << 1 >>, light1 >>,
            << << 2 >>, light2 >>,
            << << 3 >>, light3 >>,
            << << 4, 5 >>, 0 >>,
            << << 6 >>, 0 >>,
            << << 7 >>, 1 >>,
            << << 11 >>, 0 >>,
            << << 12 >>, 1 >>,
            << << 13 >>, 0 >>,
            << << 14 >>, 0 >>,
            << << 15 >>, 1 >>,
            << << 16, 20 >>, alpha >>,
            << << 24, 29 >>, polygon_id >> >>)
    IN  command(41, << LE32(attr) >>)

\* scale_components(components, 255) followed by _24bit_to_16bit:
\* int((component * 255) * (1 / 8)).
scale_to_16bit(components) ==
    [i \in 1..3 |-> TruncDiv(components[i].n * 255, components[i].d * 8)]

\* The word shared by the pure dif_amb and spe_emi (use256 = True, the flag
\* at bit 15 False).
packed_color_pair(first, second) ==
    LET f == scale_to_16bit(first)
        g == scale_to_16bit(second)
    IN  pack_bits(<<
            << << 0, 4 >>, f[1] >>,
            << << 5, 9 >>, f[2] >>,
            << << 10, 14 >>, f[3] >>,
            << << 15 >>, 0 >>,
            << << 16, 20 >>, g[1] >>,
            << << 21, 25 >>, g[2] >>,
            << << 26, 30 >>, g[3] >> >>)

dif_amb(diffuse, ambient) == command(48, << LE32(packed_color_pair(diffuse, ambient)) >>)

spe_emi(specular, emit) == command(49, << LE32(packed_color_pair(specular, emit)) >>)

CLEAR_TEXTURE_PARAMETERS == teximage_param(0, 0, 0, 0)

(***************************************************************************)
(* Python's int() on a flag value: True is 1, a text of decimal digits is  *)
(* its number, anything else raises ValueError.                            *)
(***************************************************************************)
IsDigits(v) == Len(v) > 0 /\ \A i \in 1..Len(v) : v[i] \in 48..57

RECURSIVE DigitsValue(_)
DigitsValue(v) ==
    IF v = << >> THEN 0
    ELSE DigitsValue(SubSeq(v, 1, Len(v) - 1)) * 10 + (v[Len(v)] - 48)

int_raises(v) == v # PyTrue /\ ~IsDigits(v)

int(v) == IF v = PyTrue THEN 1 ELSE DigitsValue(v)

FLAG_ALPHA == << 97, 108, 112, 104, 97 >>
FLAG_ID == << 105, 100 >>

\* The flags are ignored.
flag_int_default(flags, key, default) == default

\* flags.get(key, default) passed through int(); the default is an int.
flag_int(flags, key, default) ==
    IF key \in DOMAIN flags THEN int(flags[key]) ELSE default

flag_int_raises(flags, key) ==
    key \in DOMAIN flags /\ int_raises(flags[key])

(***************************************************************************)
(* dsgx.py: texture and face attributes (each Emitter-based writer is      *)
(* reconciled with its pure generator)                                     *)
(***************************************************************************)
\* The compilation context: the Emitter, the two offset tables of the
\* Writer, current_material of the running pass and the exception raised.
Context(e, groups, textures) ==
    [gx |-> e, group_offsets |-> groups, texture_offsets |-> textures,
     current_material |-> None, err |-> "none"]

\* offsets[key].append(value), creating the list when the key is new.
AppendOffset(offsets, key, value) ==
    DictSet(offsets, key, IF key \in DOMAIN offsets THEN Append(offsets[key], value)
                          ELSE << value >>)

\* The commands the Emitter e2 holds beyond those of e1.
Emitted(e1, e2) == SubSeq(e2.commands, Len(e1.commands) + 1, Len(e2.commands))

Raise(ctx, exception) == [ctx EXCEPT !.err = exception]

generate_texture_attributes(material) ==
    << teximage_param(material.texture_size[1], material.texture_size[2], 262144, 7),
       texpllt_base(0, 0) >>

\* The offset recorded is that of the opcode word.
write_texture_attributes_at_opcode(ctx, texture_name, material) ==
    Let(material.texture_size, LAMBDA size :
    Let(Emitter_texpllt_base(Emitter_teximage_param(ctx.gx, 262144, size[1], size[2], 7),
                             0, 0), LAMBDA e2 :
        [ctx EXCEPT !.gx = e2,
                    !.texture_offsets = AppendOffset(@, texture_name, ctx.gx.offset),
                    !.err = IF Emitted(ctx.gx, e2) = generate_texture_attributes(material)
                            THEN "none" ELSE "AssertionError"]))

write_texture_attributes(ctx, texture_name, material) ==
    Let(material.texture_size, LAMBDA size :
    Let(Emitter_texpllt_base(Emitter_teximage_param(ctx.gx, 262144, size[1], size[2], 7),
                             0, 0), LAMBDA e2 :
        [ctx EXCEPT !.gx = e2,
                    !.texture_offsets = AppendOffset(@, texture_name, ctx.gx.offset + 1),
                    !.err = IF Emitted(ctx.gx, e2) = generate_texture_attributes(material)
                            THEN "none" ELSE "AssertionError"]))

generate_face_attributes(face, mdl) ==
    Let(mdl.materials[face.material], LAMBDA material :
    Let(parse_material_flags(face.material), LAMBDA flags :
        (IF material.texture # None
         THEN generate_texture_attributes(material)
         ELSE << CLEAR_TEXTURE_PARAMETERS >>)
        \o << polygon_attr(1, 1, 1, 1, flag_int(flags, FLAG_ALPHA, 31),
                           flag_int(flags, FLAG_ID, 0)) >>
        \o << dif_amb(material.diffuse, material.ambient),
              spe_emi(material.specular, material.emit) >>))

\* [component * 255 for component in ...]
times255(components) == [i \in 1..3 |-> R(components[i].n * 255, components[i].d)]

\* The body of write_face_attributes once the texture part has run in c1.
write_face_attributes_tail(ctx, c1, face, mdl) ==
    Let(mdl.materials[face.material], LAMBDA material :
    Let(parse_material_flags(face.material), LAMBDA flags :
    Let(IF flags # EmptyDict
        THEN [alpha |-> flag_int(flags, FLAG_ALPHA, 31), id |-> flag_int(flags, FLAG_ID, 0)]
        ELSE [alpha |-> 31, id |-> 0], LAMBDA polygon :
    Let(Emitter_polygon_attr(c1.gx, 1, 1, 1, 1, polygon.alpha, polygon.id), LAMBDA e2 :
    Let(Emitter_dif_amb(e2, times255(material.diffuse), times255(material.ambient),
                        FALSE, TRUE), LAMBDA e3 :
    Let(Emitter_spe_emi(e3, times255(material.specular), times255(material.emit),
                        FALSE, TRUE), LAMBDA e4 :
        IF flag_int_raises(flags, FLAG_ALPHA) \/ flag_int_raises(flags, FLAG_ID)
        THEN Raise(c1, "ValueError")
        ELSE IF Emitted(ctx.gx, e4) # generate_face_attributes(face, mdl)
        THEN Raise([c1 EXCEPT !.gx = e4], "AssertionError")
        ELSE [c1 EXCEPT !.gx = e4]))))))

write_face_attributes(ctx, face, mdl) ==
    Let(mdl.materials[face.material], LAMBDA material :
    Let(IF material.texture # None
        THEN write_texture_attributes(ctx, material.texture, material)
        ELSE [ctx EXCEPT !.gx = Emitter_teximage_param(ctx.gx, 0, 0, 0, 0)], LAMBDA c1 :
        IF c1.err # "none" THEN c1
        ELSE write_face_attributes_tail(ctx, c1, face, mdl)))

(***************************************************************************)
(* model.py: the parts of the scene graph the Writer reads.  A mesh is     *)
(* [name, vertices, polygons]; vertex indices count from 1.                *)
(***************************************************************************)
DEFAULT == << 100, 101, 102, 97, 117, 108, 116 >>

\* Python truthiness of an optional text: neither None nor empty.
Truthy(text) == text # None /\ text # << >>

RLess(a, b) == a.n * b.d < b.n * a.d
RAdd(a, b) == Reduced(a.n * b.d + b.n * a.d, a.d * b.d)
RSub(a, b) == Reduced(a.n * b.d - b.n * a.d, a.d * b.d)
RAbs(a) == R(IF a.n < 0 THEN -a.n ELSE a.n, a.d)
RMin(a, b) == IF RLess(b, a) THEN b ELSE a
RMax(a, b) == IF RLess(a, b) THEN b ELSE a

ActiveMesh(mdl) ==
    LET i == CHOOSE k \in 1..Len(mdl.meshes) : mdl.meshes[k].name = mdl.active_mesh
    IN  mdl.meshes[i]

vertexGroup(mesh, face) == mesh.vertices[face.vertices[1]].group

isMixed_never(mesh, face) == FALSE

isMixed(mesh, face) ==
    \E i \in 1..Len(face.vertices) :
        mesh.vertices[face.vertices[i]].group # mesh.vertices[face.vertices[1]].group

\* min / max of 0 and one coordinate (axis 1..3) over the first k vertices.
RECURSIVE box_min(_, _, _)
box_min(vertices, axis, k) ==
    IF k = 0 THEN R(0, 1)
    ELSE RMin(box_min(vertices, axis, k - 1), vertices[k].location[axis])

RECURSIVE box_max(_, _, _)
box_max(vertices, axis, k) ==
    IF k = 0 THEN R(0, 1)
    ELSE RMax(box_max(vertices, axis, k - 1), vertices[k].location[axis])

\* Model.bounding_box: the widths wx, wy, wz of the box of the active mesh.
bounding_box(mdl) ==
    Let(ActiveMesh(mdl).vertices, LAMBDA vs :
        [axis \in 1..3 |-> RSub(box_max(vs, axis, Len(vs)), box_min(vs, axis, Len(vs)))])

(***************************************************************************)
(* dsgx.py: the scene compiler                                             *)
(***************************************************************************)
write_normal(ctx, normal) ==
    IF normal = None THEN Raise(ctx, "NameError")
    ELSE [ctx EXCEPT !.gx = Emitter_normal(@, normal[1], normal[2], normal[3])]

write_vertex(e, location, sf, v10) ==
    IF v10
    THEN Emitter_vtx_10(e, RMul(location[1], sf), RMul(location[2], sf),
                        RMul(location[3], sf))
    ELSE Emitter_vtx_16(e, RMul(location[1], sf), RMul(location[2], sf),
                        RMul(location[3], sf))

SEVEN_POINT_NINE == R(79, 10)

determine_scale_factor_unscaled(mdl) == R(1, 1)

determine_scale_factor(mdl) ==
    Let(bounding_box(mdl), LAMBDA bb :
    Let(RMax(RMax(RAbs(bb[1]), RAbs(bb[2])), RAbs(bb[3])), LAMBDA largest_coordinate :
        IF RLess(SEVEN_POINT_NINE, largest_coordinate)
        THEN R(SEVEN_POINT_NINE.n * largest_coordinate.d,
               SEVEN_POINT_NINE.d * largest_coordinate.n)
        ELSE R(1, 1)))

write_sane_defaults(e) ==
    LET e1 == Emitter_color(e, 64, 64, 64, TRUE)
        e2 == Emitter_polygon_attr(e1, 1, 1, 1, 1, 31, 0)
    IN  Emitter_dif_amb(e2, << R(192, 1), R(192, 1), R(192, 1) >>,
                        << R(32, 1), R(32, 1), R(32, 1) >>, FALSE, TRUE)

start_polygon_list_omitted(e, points_per_polygon) == e

start_polygon_list(e, points_per_polygon) ==
    IF points_per_polygon = 3 THEN Emitter_begin_vtxs(e, vtxs_triangle)
    ELSE IF points_per_polygon = 4 THEN Emitter_begin_vtxs(e, vtxs_quad)
    ELSE e

material_edge_every_face(ctx, face, mdl, polytype) ==
    Let(write_face_attributes([ctx EXCEPT !.current_material = face.material], face, mdl),
        LAMBDA c1 : IF c1.err # "none" THEN c1
                    ELSE [c1 EXCEPT !.gx = start_polygon_list(@, polytype)])

\* The material edge of both passes: on a change of material, the face
\* attributes and a new vertex list.
material_edge(ctx, face, mdl, polytype) ==
    IF ctx.current_material # face.material
    THEN Let(write_face_attributes([ctx EXCEPT !.current_material = face.material],
                                   face, mdl),
             LAMBDA c1 : IF c1.err # "none" THEN c1
                         ELSE [c1 EXCEPT !.gx = start_polygon_list(@, polytype)])
    ELSE ctx

face_normal_of(ctx, face) ==
    IF ctx.err = "none" /\ ~face.smooth_shading
    THEN [ctx EXCEPT !.gx = Emitter_normal(@, face.face_normal[1], face.face_normal[2],
                                           face.face_normal[3])]
    ELSE ctx

\* One pass of the vertex loop of process_monogroup_faces (vertex p of face).
mono_vertex(ctx, face, p, mesh, mdl, sf, v10) ==
    Let(mdl.materials[face.material].texture_size, LAMBDA size :
    Let(IF Truthy(mdl.materials[ctx.current_material].texture)
        THEN [ctx EXCEPT !.gx = Emitter_texcoord(@,
                  RMul(face.uvlist[p][1], R(size[1], 1)),
                  RMul(RSub(R(1, 1), face.uvlist[p][2]), R(size[2], 1)))]
        ELSE ctx, LAMBDA c1 :
    Let(IF face.smooth_shading THEN write_normal(c1, face.vertex_normals[p]) ELSE c1,
        LAMBDA c2 :
        IF c2.err # "none" THEN c2
        ELSE [c2 EXCEPT !.gx = write_vertex(@, mesh.vertices[face.vertices[p]].location,
                                            sf, v10)])))

RECURSIVE mono_vertices(_, _, _, _, _, _, _)
mono_vertices(ctx, face, p, mesh, mdl, sf, v10) ==
    IF ctx.err # "none" \/ p > Len(face.vertices) THEN ctx
    ELSE mono_vertices(mono_vertex(ctx, face, p, mesh, mdl, sf, v10),
                       face, p + 1, mesh, mdl, sf, v10)

\* The face loop of process_monogroup_faces for one group and one polytype,
\* from face f on.
RECURSIVE mono_faces(_, _, _, _, _, _, _, _)
mono_faces(ctx, group, polytype, f, mesh, mdl, sf, v10) ==
    IF ctx.err # "none" \/ f > Len(mesh.polygons) THEN ctx
    ELSE LET face == mesh.polygons[f]
             c == IF vertexGroup(mesh, face) = group /\ ~isMixed(mesh, face)
                     /\ Len(face.vertices) = polytype
                  THEN mono_vertices(
                           face_normal_of(material_edge(ctx, face, mdl, polytype), face),
                           face, 1, mesh, mdl, sf, v10)
                  ELSE ctx
         IN  mono_faces(c, group, polytype, f + 1, mesh, mdl, sf, v10)

\* The offset is recorded for the opcode word of the matrix multiply.
record_group_offset_at_opcode(ctx, group) ==
    [ctx EXCEPT !.group_offsets = AppendOffset(@, group, ctx.gx.offset)]

\* self.group_offsets[group].append(gx.offset + 1)
record_group_offset(ctx, group) ==
    [ctx EXCEPT !.group_offsets = AppendOffset(@, group, ctx.gx.offset + 1)]

mono_group_not_popped(ctx, group, mesh, mdl, sf, v10) ==
    Let([ctx EXCEPT !.gx = Emitter_push(@)], LAMBDA c1 :
    Let(IF group # DEFAULT THEN record_group_offset(c1, group) ELSE c1, LAMBDA c2 :
    Let([c2 EXCEPT !.gx = Emitter_mtx_mult_4x4(@, IdentityMatrix)], LAMBDA c3 :
    Let(mono_faces([c3 EXCEPT !.gx = start_polygon_list(@, 3)], group, 3, 1,
                   mesh, mdl, sf, v10), LAMBDA c4 :
        IF c4.err # "none" THEN c4
        ELSE mono_faces([c4 EXCEPT !.gx = start_polygon_list(@, 4)], group, 4, 1,
                        mesh, mdl, sf, v10)))))

\* The body of the group loop of process_monogroup_faces.
mono_group(ctx, group, mesh, mdl, sf, v10) ==
    Let([ctx EXCEPT !.gx = Emitter_push(@)], LAMBDA c1 :
    Let(IF group # DEFAULT THEN record_group_offset(c1, group) ELSE c1, LAMBDA c2 :
    Let([c2 EXCEPT !.gx = Emitter_mtx_mult_4x4(@, IdentityMatrix)], LAMBDA c3 :
    Let(mono_faces([c3 EXCEPT !.gx = start_polygon_list(@, 3)], group, 3, 1,
                   mesh, mdl, sf, v10), LAMBDA c4 :
    Let(IF c4.err # "none" THEN c4
        ELSE mono_faces([c4 EXCEPT !.gx = start_polygon_list(@, 4)], group, 4, 1,
                        mesh, mdl, sf, v10), LAMBDA c5 :
        IF c5.err # "none" THEN c5 ELSE [c5 EXCEPT !.gx = Emitter_pop(@)])))))

RECURSIVE mono_groups(_, _, _, _, _, _)
mono_groups(ctx, g, mesh, mdl, sf, v10) ==
    IF ctx.err # "none" \/ g > Len(mdl.groups) THEN ctx
    ELSE mono_groups(mono_group(ctx, mdl.groups[g], mesh, mdl, sf, v10),
                     g + 1, mesh, mdl, sf, v10)

process_monogroup_faces(ctx, mdl, sf, v10) ==
    mono_groups([ctx EXCEPT !.current_material = None], 1, ActiveMesh(mdl), mdl,
                sf, v10)

poly_vertex_first_group(ctx, face, p, mesh, sf, v10) ==
    Let(face.vertices[p], LAMBDA point_index :
    Let([ctx EXCEPT !.gx = Emitter_push(@)], LAMBDA c1 :
    Let(record_group_offset(c1, mesh.vertices[face.vertices[1]].group), LAMBDA c2 :
    Let([c2 EXCEPT !.gx = Emitter_mtx_mult_4x4(@, IdentityMatrix)], LAMBDA c3 :
    Let(IF face.smooth_shading THEN write_normal(c3, face.vertex_normals[p]) ELSE c3,
        LAMBDA c4 :
        IF c4.err # "none" THEN c4
        ELSE [c4 EXCEPT !.gx = Emitter_pop(write_vertex(@,
                  mesh.vertices[point_index].location, sf, v10))])))))

\* One pass of the vertex loop of process_polygroup_faces.
poly_vertex(ctx, face, p, mesh, sf, v10) ==
    Let(face.vertices[p], LAMBDA point_index :
    Let([ctx EXCEPT !.gx = Emitter_push(@)], LAMBDA c1 :
    Let(record_group_offset(c1, mesh.vertices[point_index].group), LAMBDA c2 :
    Let([c2 EXCEPT !.gx = Emitter_mtx_mult_4x4(@, IdentityMatrix)], LAMBDA c3 :
    Let(IF face.smooth_shading THEN write_normal(c3, face.vertex_normals[p]) ELSE c3,
        LAMBDA c4 :
        IF c4.err # "none" THEN c4
        ELSE [c4 EXCEPT !.gx = Emitter_pop(write_vertex(@,
                  mesh.vertices[point_index].location, sf, v10))])))))

RECURSIVE poly_vertices(_, _, _, _, _, _)
poly_vertices(ctx, face, p, mesh, sf, v10) ==
    IF ctx.err # "none" \/ p > Len(face.vertices) THEN ctx
    ELSE poly_vertices(poly_vertex(ctx, face, p, mesh, sf, v10),
                       face, p + 1, mesh, sf, v10)

RECURSIVE poly_faces(_, _, _, _, _, _, _)
poly_faces(ctx, polytype, f, mesh, mdl, sf, v10) ==
    IF ctx.err # "none" \/ f > Len(mesh.polygons) THEN ctx
    ELSE LET face == mesh.polygons[f]
             c == IF Len(face.vertices) = polytype /\ isMixed(mesh, face)
                  THEN poly_vertices(
                           face_normal_of(material_edge(ctx, face, mdl, polytype), face),
                           face, 1, mesh, sf, v10)
                  ELSE ctx
         IN  poly_faces(c, polytype, f + 1, mesh, mdl, sf, v10)

process_polygroup_faces(ctx, mdl, sf, v10) ==
    Let(ActiveMesh(mdl), LAMBDA mesh :
    Let([ctx EXCEPT !.current_material = None], LAMBDA c0 :
    Let(poly_faces([c0 EXCEPT !.gx = start_polygon_list(@, 3)], 3, 1, mesh, mdl,
                   sf, v10), LAMBDA c1 :
        IF c1.err # "none" THEN c1
        ELSE poly_faces([c1 EXCEPT !.gx = start_polygon_list(@, 4)], 4, 1, mesh, mdl,
                        sf, v10))))

compile_active_mesh_tables_kept(mdl, v10) ==
    Let(determine_scale_factor(mdl), LAMBDA sf :
    Let(Emitter_mtx_mult_4x4(Emitter_push(write_sane_defaults(Emitter)),
                             mdl.global_matrix), LAMBDA e1 :
    Let(IF sf # R(1, 1)
        THEN Emitter_mtx_scale(e1, R(sf.d, sf.n), R(sf.d, sf.n), R(sf.d, sf.n))
        ELSE e1, LAMBDA e2 :
    Let(process_monogroup_faces(Context(e2, group_offsets, texture_offsets), mdl, sf, v10),
        LAMBDA c1 :
    Let(IF c1.err # "none" THEN c1 ELSE process_polygroup_faces(c1, mdl, sf, v10),
        LAMBDA c2 :
        IF c2.err # "none" THEN c2 ELSE [c2 EXCEPT !.gx = Emitter_pop(@)])))))

compile_active_mesh_always_scaled(mdl, v10) ==
    Let(determine_scale_factor(mdl), LAMBDA sf :
    Let(Emitter_mtx_mult_4x4(Emitter_push(write_sane_defaults(Emitter)),
                             mdl.global_matrix), LAMBDA e1 :
    Let(Emitter_mtx_scale(e1, R(sf.d, sf.n), R(sf.d, sf.n), R(sf.d, sf.n)), LAMBDA e2 :
    Let(process_monogroup_faces(Context(e2, EmptyDict, EmptyDict), mdl, sf, v10),
        LAMBDA c1 :
    Let(IF c1.err # "none" THEN c1 ELSE process_polygroup_faces(c1, mdl, sf, v10),
        LAMBDA c2 :
        IF c2.err # "none" THEN c2 ELSE [c2 EXCEPT !.gx = Emitter_pop(@)])))))

\* output_active_mesh up to the final pop: the compiled Emitter and the
\* offset tables of the active mesh.
compile_active_mesh(mdl, v10) ==
    Let(determine_scale_factor(mdl), LAMBDA sf :
    Let(Emitter_mtx_mult_4x4(Emitter_push(write_sane_defaults(Emitter)),
                             mdl.global_matrix), LAMBDA e1 :
    Let(IF sf # R(1, 1)
        THEN Let(R(sf.d, sf.n), LAMBDA inverse_scale :
                 Emitter_mtx_scale(e1, inverse_scale, inverse_scale, inverse_scale))
        ELSE e1, LAMBDA e2 :
    Let(process_monogroup_faces(Context(e2, EmptyDict, EmptyDict), mdl, sf, v10),
        LAMBDA c1 :
    Let(IF c1.err # "none" THEN c1 ELSE process_polygroup_faces(c1, mdl, sf, v10),
        LAMBDA c2 :
        IF c2.err # "none" THEN c2 ELSE [c2 EXCEPT !.gx = Emitter_pop(@)])))))

\* Emitter.write(packed=False): the word count, then per instruction the
\* opcode byte with three zero bytes and the parameters.
RECURSIVE unpacked(_)
unpacked(commands) ==
    IF commands = << >> THEN << >>
    ELSE LET c == Head(commands)
             RECURSIVE params(_)
             params(ps) == IF ps = << >> THEN << >> ELSE Head(ps) \o params(Tail(ps))
         IN  << c.instruction, 0, 0, 0 >> \o params(c.params) \o unpacked(Tail(commands))

Emitter_write_byte_count(e) ==
    LET out == unpacked(e.commands)
    IN  LE32(Len(out)) \o out

Emitter_write(e) ==
    LET out == unpacked(e.commands)
    IN  LE32(Len(out) \div 4) \o out

(***************************************************************************)
(* dsgx.py: the COST chunk of output_active_mesh                           *)
(***************************************************************************)
COST == << 67, 79, 83, 84 >>

cost_chunk_data(active_mesh, max_cull_polys, cycles) ==
    to_dsgx_string(active_mesh) \o LE32(max_cull_polys) \o LE32(cycles)

(***************************************************************************)
(* model.py: bounding_sphere.  Every vertex coordinate of a scene shares   *)
(* one denominator; the radius is the square root truncated to a multiple  *)
(* of 1 / (denominator * number of points).                                *)
(***************************************************************************)
RECURSIVE ISqrtFrom(_, _)
ISqrtFrom(n, x) ==
    LET y == (x + n \div x) \div 2
    IN  IF y >= x THEN x ELSE ISqrtFrom(n, y)

ISqrt(n) == IF n = 0 THEN 0 ELSE ISqrtFrom(n, n)

RECURSIVE all_points(_, _)
all_points(meshes, k) ==
    IF k = 0 THEN << >>
    ELSE all_points(meshes, k - 1) \o [i \in 1..Len(meshes[k].vertices) |->
                                          meshes[k].vertices[i].location]

RECURSIVE SumAxis(_, _, _)
SumAxis(points, axis, k) ==
    IF k = 0 THEN 0 ELSE SumAxis(points, axis, k - 1) + points[k][axis].n

\* The midpoint (three reals) and the radius (a real) of all points of all
\* meshes; called only when there is at least one point.
bounding_sphere(mdl) ==
    Let(all_points(mdl.meshes, Len(mdl.meshes)), LAMBDA points :
    Let(Len(points), LAMBDA count :
    Let([axis \in 1..3 |-> SumAxis(points, axis, count)], LAMBDA total :
    Let([i \in 1..count |->
            (points[i][1].n * count - total[1]) * (points[i][1].n * count - total[1])
            + (points[i][2].n * count - total[2]) * (points[i][2].n * count - total[2])
            + (points[i][3].n * count - total[3]) * (points[i][3].n * count - total[3])],
        LAMBDA dist2 :
    Let(CHOOSE i \in 1..count : \A j \in 1..count : dist2[j] <= dist2[i], LAMBDA far :
        [midpoint |-> [axis \in 1..3 |-> R(total[axis], points[1][1].d * count)],
         radius |-> R(ISqrt(dist2[far]), points[1][1].d * count)])))))

bounding_sphere_raises(mdl) == all_points(mdl.meshes, Len(mdl.meshes)) = << >>

(***************************************************************************)
(* dsgx.py: the chunks of the Writer                                       *)
(***************************************************************************)
DSGX == << 68, 83, 71, 88 >>
BSPH == << 66, 83, 80, 72 >>
BONE == << 66, 79, 78, 69 >>
TXTR == << 84, 88, 84, 82 >>
BANI == << 66, 65, 78, 73 >>

dsgx_chunk_data(mdl, e) == to_dsgx_string(mdl.active_mesh) \o Emitter_write(e)

bsph_chunk_data(mdl) ==
    Let(bounding_sphere(mdl), LAMBDA sphere :
        to_dsgx_string(mdl.active_mesh)
        \o LE32(to_fixed_point(sphere.midpoint[1], 12))
        \o LE32(to_fixed_point(sphere.midpoint[3], 12))
        \o LE32(to_fixed_point(RMul(sphere.midpoint[2], R(-1, 1)), 12))
        \o LE32(to_fixed_point(sphere.radius, 12)))

\* a < b for two texts (Python's string order).
RECURSIVE LexLess(_, _)
LexLess(a, b) ==
    IF b = << >> THEN FALSE
    ELSE IF a = << >> THEN TRUE
    ELSE IF Head(a) # Head(b) THEN Head(a) < Head(b)
    ELSE LexLess(Tail(a), Tail(b))

\* sorted(names)
RECURSIVE sorted(_)
sorted(names) ==
    IF names = {} THEN << >>
    ELSE LET first == CHOOSE x \in names : \A y \in names \ {x} : LexLess(x, y)
         IN  << first >> \o sorted(names \ {first})

RECURSIVE offset_words(_)
offset_words(offsets) ==
    IF offsets = << >> THEN << >> ELSE LE32(Head(offsets)) \o offset_words(Tail(offsets))

\* One entry of an offset table chunk: name, count, offsets.
offsets_entry(name, offsets) ==
    to_dsgx_string(name) \o LE32(Len(offsets)) \o offset_words(offsets)

RECURSIVE bone_entries(_, _)
bone_entries(node_names, offsets) ==
    IF node_names = << >> THEN << >>
    ELSE LET node_name == Head(node_names)
             entry == IF node_name = DEFAULT THEN << >>
                      ELSE IF node_name \in DOMAIN offsets
                      THEN offsets_entry(node_name, offsets[node_name])
                      ELSE to_dsgx_string(node_name) \o LE32(0)
         IN  entry \o bone_entries(Tail(node_names), offsets)

RECURSIVE texture_entries(_, _)
texture_entries(textures, offsets) ==
    IF textures = << >> THEN << >>
    ELSE offsets_entry(Head(textures), offsets[Head(textures)])
         \o texture_entries(Tail(textures), offsets)

txtr_chunk_data_descending(mdl, offsets) ==
    LET names == sorted(DOMAIN offsets)
    IN  to_dsgx_string(mdl.active_mesh)
        \o LE32(Cardinality(DOMAIN offsets))
        \o texture_entries([i \in 1..Len(names) |-> names[Len(names) + 1 - i]], offsets)

txtr_chunk_data(mdl, offsets) ==
    to_dsgx_string(mdl.active_mesh)
    \o LE32(Cardinality(DOMAIN offsets))
    \o texture_entries(sorted(DOMAIN offsets), offsets)

bone_chunk_data_recorded_only(mdl, offsets) ==
    LET some_animation == mdl.animations[1]
    IN  to_dsgx_string(mdl.active_mesh)
        \o LE32(Cardinality(DOMAIN some_animation.nodes))
        \o bone_entries(sorted(DOMAIN some_animation.nodes \cap DOMAIN offsets), offsets)

bone_chunk_data(mdl, offsets) ==
    LET some_animation == mdl.animations[1]
    IN  to_dsgx_string(mdl.active_mesh)
        \o LE32(Cardinality(DOMAIN some_animation.nodes))
        \o bone_entries(sorted(DOMAIN some_animation.nodes), offsets)

output_active_bones_skipped(stream, mdl, offsets) == [fp |-> stream, err |-> "none"]

\* output_active_bones: nothing is written for a model without animations.
output_active_bones(stream, mdl, offsets) ==
    IF mdl.animations = << >> THEN [fp |-> stream, err |-> "none"]
    ELSE fp_write_chunk(stream, BONE, bone_chunk_data(mdl, offsets))

matrix_words(matrix) ==
    LET RECURSIVE from(_)
        from(i) == IF i > 16 THEN << >>
                   ELSE LE32(to_fixed_point(matrix[i], 12)) \o from(i + 1)
    IN  from(1)

\* getTransform raises IndexError when the node has no matrix for a frame.
bani_raises(animation) ==
    \E node_name \in DOMAIN animation.nodes :
        node_name # DEFAULT /\ Len(animation.nodes[node_name]) < animation.length

RECURSIVE bani_nodes(_, _, _)
bani_nodes(animation, node_names, frame) ==
    IF node_names = << >> THEN << >>
    ELSE (IF Head(node_names) = DEFAULT THEN << >>
          ELSE matrix_words(animation.nodes[Head(node_names)][frame]))
         \o bani_nodes(animation, Tail(node_names), frame)

RECURSIVE bani_frames(_, _)
bani_frames(animation, frame) ==
    IF frame > animation.length THEN << >>
    ELSE bani_nodes(animation, sorted(DOMAIN animation.nodes), frame)
         \o bani_frames(animation, frame + 1)

bani_chunk_data(animation) ==
    to_dsgx_string(animation.name) \o LE32(animation.length) \o bani_frames(animation, 1)

\* A run of chunk writes that stops at the first one that raises.
RECURSIVE write_chunks(_, _)
write_chunks(stream, chunks) ==
    IF chunks = << >> THEN [fp |-> stream, err |-> "none"]
    ELSE LET r == fp_write_chunk(stream, Head(chunks)[1], Head(chunks)[2])
         IN  IF r.err # "none" THEN r ELSE write_chunks(r.fp, Tail(chunks))

\* output_animations: one BANI chunk per animation, up to the first
\* animation whose matrices run out.
RECURSIVE output_animations(_, _)
output_animations(stream, animations) ==
    IF animations = << >> THEN [fp |-> stream, err |-> "none"]
    ELSE IF bani_raises(Head(animations)) THEN [fp |-> stream, err |-> "IndexError"]
    ELSE LET r == fp_write_chunk(stream, BANI, bani_chunk_data(Head(animations)))
         IN  IF r.err # "none" THEN r ELSE output_animations(r.fp, Tail(animations))

(***************************************************************************)
(* model.py: max_cull_polys                                                *)
(***************************************************************************)
dot(a, b) == RAdd(RAdd(RMul(a[1], b[1]), RMul(a[2], b[2])), RMul(a[3], b[3]))

max_cull_polys_of_others(mdl) ==
    Let(ActiveMesh(mdl).polygons, LAMBDA polygons :
    Let({ Cardinality({ f \in 1..Len(polygons) \ { t } :
              ~RLess(dot(polygons[f].face_normal, polygons[t].face_normal), R(0, 1)) }) :
              t \in 1..Len(polygons) }
        \cup { Cardinality({ f \in 1..Len(polygons) \ { t } :
                   RLess(dot(polygons[f].face_normal, polygons[t].face_normal), R(0, 1)) }) :
                   t \in 1..Len(polygons) }
        \cup { 0 }, LAMBDA counts :
        CHOOSE c \in counts : \A o \in counts : o <= c))

max_cull_polys(mdl) ==
    Let(ActiveMesh(mdl).polygons, LAMBDA polygons :
    Let({ Cardinality({ f \in 1..Len(polygons) :
              ~RLess(dot(polygons[f].face_normal, polygons[t].face_normal), R(0, 1)) }) :
              t \in 1..Len(polygons) }
        \cup { Cardinality({ f \in 1..Len(polygons) :
                   RLess(dot(polygons[f].face_normal, polygons[t].face_normal), R(0, 1)) }) :
                   t \in 1..Len(polygons) }
        \cup { 0 }, LAMBDA counts :
        CHOOSE c \in counts : \A o \in counts : o <= c))

(***************************************************************************)
(* The scenes Writer.write is run on                                       *)
(***************************************************************************)
B1 == << 98, 49 >>
B2 == << 98, 50 >>
TEX == << 116, 101, 120 >>
ABC == << 97, 98, 99 >>
SKIN == << 115, 107, 105, 110 >>
MeshName(k) == << 109, 48 + k >>
AnimName(k) == << 97, 48 + k >>

\* flags|name
Flagged(flags_text, name_text) == flags_text \o << PIPE >> \o name_text

METAL == Flagged(FLAG_ALPHA \o << EQUALS, 49, 48, COMMA >> \o FLAG_ID \o << EQUALS, 50 >>,
                 << 109, 101, 116, 97, 108 >>)
ID40 == Flagged(FLAG_ID \o << EQUALS, 52, 48 >>, << 120 >>)
ALPHA7 == Flagged(FLAG_ALPHA \o << EQUALS, 55 >>, << 121 >>)
NOFLAGS == Flagged(<< >>, << 122 >>)
BARE == Flagged(FLAG_ALPHA, << 119 >>)
ALPHA40 == Flagged(FLAG_ALPHA \o << EQUALS, 52, 48 >>, << 118 >>)
ALPHA200 == Flagged(FLAG_ALPHA \o << EQUALS, 50, 48, 48 >>, << 117 >>)
ID64 == Flagged(FLAG_ID \o << EQUALS, 54, 52 >>, << 116 >>)
ALPHAX == Flagged(FLAG_ALPHA \o << EQUALS, 120 >>, << 115 >>)

MainMaterials == { SKIN, METAL, ID40 }
ExtraMaterials == { ALPHA7, NOFLAGS, BARE, ALPHA40, ALPHA200, ID64, ALPHAX }

\* Model.addMaterial: colours are reals in 0..1.
Material(texture, width, height) ==
    [texture |-> texture, texture_size |-> << width, height >>,
     ambient |-> << R(1, 10), R(1, 10), R(1, 10) >>,
     diffuse |-> << R(4, 5), R(2, 5), R(1, 1) >>,
     specular |-> << R(1, 1), R(1, 2), R(0, 1) >>,
     emit |-> << R(0, 1), R(1, 4), R(0, 1) >>]

Materials(texture) ==
    [name \in MainMaterials \cup ExtraMaterials |->
        IF name = METAL THEN Material(texture, 64, 32)
        ELSE IF name = ALPHA7 THEN Material(ABC, 8, 8)
        ELSE Material(None, 0, 0)]

\* The four corners of the meshes, in tenths, before the size factor.
Corners == << << 0, 0, 0 >>, << 10, 0, 0 >>, << 10, 10, -5 >>, << -3, 10, 0 >> >>

Vertices(pattern, size) ==
    [i \in 1..4 |-> [location |-> [axis \in 1..3 |-> R(size * Corners[i][axis], 10)],
                     group |-> pattern[i]]]

UP == << R(0, 1), R(0, 1), R(1, 1) >>

Polygon(vertex_list, material, smooth) ==
    [vertices |-> vertex_list, material |-> material, smooth_shading |-> smooth,
     face_normal |-> UP,
     vertex_normals |-> [i \in 1..Len(vertex_list) |-> UP],
     uvlist |-> [i \in 1..Len(vertex_list) |->
                    << R(Corners[vertex_list[i]][1], 10), R(Corners[vertex_list[i]][2], 10) >>]]

\* Triangles and quads of every material; the textured material comes
\* flat and smooth.
PolygonOptions(materials) ==
    { Polygon(option[1], option[2], option[3]) :
          option \in { o \in { << 1, 2, 3 >>, << 1, 2, 3, 4 >> } \X materials \X BOOLEAN :
                           o[3] => o[2] = METAL } }

PolygonLists(materials, n) == UNION { [1..k -> PolygonOptions(materials)] : k \in 0..n }

\* Mesh.addVertex: the groups in order of first use, after "default".
RECURSIVE add_groups(_, _)
add_groups(groups, names) ==
    IF names = << >> THEN groups
    ELSE add_groups(IF \E i \in 1..Len(groups) : groups[i] = Head(names)
                    THEN groups ELSE Append(groups, Head(names)),
                    Tail(names))

RECURSIVE groups_of(_, _)
groups_of(meshes, k) ==
    IF k = 0 THEN << DEFAULT >>
    ELSE add_groups(groups_of(meshes, k - 1),
                    [i \in 1..Len(meshes[k].vertices) |-> meshes[k].vertices[i].group])

\* Frame f of every node: a translation that grows with the frame.
FrameMatrix(f) ==
    [i \in 1..16 |-> IF i \in {1, 6, 11, 16} THEN R(1, 1)
                     ELSE IF i = 13 THEN R(-f, 2) ELSE R(0, 1)]

\* Every node has its own translation, told by the last character of its
\* name.
NodeMatrix(node, f) == [FrameMatrix(f) EXCEPT ![14] = R(node[Len(node)], 1)]

Animation(name, length, node_names) ==
    [name |-> name, length |-> length,
     nodes |-> [node \in node_names |-> [f \in 1..length |-> NodeMatrix(node, f)]]]

GlobalMatrix ==
    [i \in 1..16 |-> IF i \in {1, 6, 11, 16} THEN R(1, 1)
                     ELSE IF i = 14 THEN R(-3, 2) ELSE R(0, 1)]

\* Model.__init__, then addMaterial, addMesh (which makes the mesh added
\* last the active one), addVertex, addPolygon and createAnimation.
Scene(meshes, animations, texture) ==
    [materials |-> Materials(texture),
     animations |-> animations,
     groups |-> groups_of(meshes, Len(meshes)),
     global_matrix |-> GlobalMatrix,
     active_mesh |-> IF meshes = << >> THEN DEFAULT ELSE meshes[Len(meshes)].name,
     meshes |-> meshes]

Mesh(name, vertices, polygons) == [name |-> name, vertices |-> vertices, polygons |-> polygons]

\* Group pattern, size factor and vertex precision of the one-mesh scenes.
Settings ==
    { [pattern |-> << DEFAULT, DEFAULT, DEFAULT, DEFAULT >>, size |-> 1, vtx10 |-> FALSE],
      [pattern |-> << B1, B1, B1, B1 >>, size |-> 9, vtx10 |-> TRUE],
      [pattern |-> << B1, B1, B1, B2 >>, size |-> 1, vtx10 |-> FALSE],
      [pattern |-> << DEFAULT, B1, B1, B1 >>, size |-> 9, vtx10 |-> FALSE] }

Run(mdl, v10) == [model |-> mdl, vtx10 |-> v10]

\* One mesh with every list of polygons, one animation.
PolygonScenes ==
    { Run(Scene(<< Mesh(MeshName(1), Vertices(st.pattern, st.size), polys) >>,
                << Animation(AnimName(1), 1, { DEFAULT, B1, B2 }) >>, TEX), st.vtx10) :
          st \in Settings, polys \in PolygonLists(MainMaterials, MaxPolys) }

\* One mesh with one triangle of every material.
MaterialScenes ==
    { Run(Scene(<< Mesh(MeshName(1), Vertices(<< B1, B1, B1, B2 >>, 1),
                        << Polygon(<< 1, 2, 3 >>, mat, FALSE) >>) >>, << >>, TEX), FALSE) :
          mat \in MainMaterials \cup ExtraMaterials }

\* The polygons of mesh k of a several-mesh scene.
MeshPolygons(k) ==
    IF k % 2 = 1
    THEN << Polygon(<< 1, 2, 3 >>, SKIN, FALSE), Polygon(<< 1, 2, 3, 4 >>, METAL, TRUE) >>
    ELSE << Polygon(<< 1, 2, 3, 4 >>, ID40, FALSE), Polygon(<< 1, 2, 3 >>, METAL, FALSE),
            Polygon(<< 1, 2, 3 >>, SKIN, TRUE) >>

MeshPattern(k) == IF k % 2 = 1 THEN << B1, B1, B1, B2 >> ELSE << B2, B2, B2, B2 >>

AnimationNodes(k) == IF k % 2 = 1 THEN { DEFAULT, B1, B2 } ELSE { B2 }

\* 0..MaxMeshes meshes (with or without vertices), 0..MaxAnimations
\* animations of 0..MaxFrames frames.
MeshScenes ==
    { Run(Scene([k \in 1..nm |-> Mesh(MeshName(k),
                                      IF empty THEN << >> ELSE Vertices(MeshPattern(k), 1),
                                      IF empty THEN << >> ELSE MeshPolygons(k))],
                [k \in 1..na |-> Animation(AnimName(k), frames, AnimationNodes(k))],
                TEX), v10) :
          nm \in 0..MaxMeshes, na \in 0..MaxAnimations, frames \in 0..MaxFrames,
          empty \in BOOLEAN, v10 \in BOOLEAN }

\* Names longer than a string field: mesh, bone, texture and animation.
LongNameScenes ==
    { Run(Scene(<< Mesh(Text(n, 0), Vertices(<< Text(n, 1), Text(n, 1), Text(n, 1), B2 >>, 1),
                        << Polygon(<< 1, 2, 3 >>, METAL, FALSE) >>) >>,
                [k \in 1..na |-> Animation(Text(n, 3), 1, { Text(n, 1), B2 })],
                Text(n, 2)), FALSE) :
          n \in { 31, 32, 33, 40 }, na \in 0..1 }

\* One flat triangle of an untextured material without flags, identity
\* global transform, no scaling.
PlainScenes ==
    { Run([Scene(<< Mesh(MeshName(1), Vertices(<< group, group, group, group >>, 1),
                         << Polygon(<< 1, 2, 3 >>, SKIN, FALSE) >>) >>, << >>, TEX)
              EXCEPT !.global_matrix = IdentityMatrix], v10) :
          group \in { DEFAULT, B1 }, v10 \in BOOLEAN }

\* Three triangles of one group, of two materials in every order.
InterleavedScenes ==
    { Run(Scene(<< Mesh(MeshName(1), Vertices(<< B1, B1, B1, B1 >>, 1),
                        [i \in 1..3 |-> Polygon(<< 1, 2, 3 >>, mats[i], FALSE)]) >>,
                << Animation(AnimName(1), 1, { B1 }) >>, TEX), FALSE) :
          mats \in [1..3 -> { SKIN, METAL }] }

\* Two textures, met in descending order of their names, one of them twice.
TextureScenes ==
    { Run(Scene(<< Mesh(MeshName(1), Vertices(<< B1, B1, B1, B2 >>, 1),
                        << Polygon(<< 1, 2, 3 >>, METAL, FALSE),
                           Polygon(<< 1, 2, 3 >>, ALPHA7, FALSE),
                           Polygon(<< 1, 2, 3, 4 >>, METAL, TRUE) >>) >>,
                [k \in 1..na |-> Animation(AnimName(k), 1, AnimationNodes(k))], TEX), v10) :
          na \in 0..1, v10 \in BOOLEAN }

\* Mesh.face_normal: the cross product of the first two edges.  normalize
\* divides by the magnitude, which is 1 for the unit edges along the axes
\* used here.
face_normal(vertices, vertex_list) ==
    LET v == [i \in 1..3 |-> vertices[vertex_list[i]].location]
        a == [axis \in 1..3 |-> RSub(v[2][axis], v[1][axis])]
        b == [axis \in 1..3 |-> RSub(v[3][axis], v[1][axis])]
    IN  << RSub(RMul(a[2], b[3]), RMul(a[3], b[2])),
           RSub(RMul(a[3], b[1]), RMul(a[1], b[3])),
           RSub(RMul(a[1], b[2]), RMul(a[2], b[1])) >>

\* The origin and the unit points of the three axes.
AxisVertices(group) ==
    [i \in 1..4 |-> [location |-> [axis \in 1..3 |-> R(IF i = axis + 1 THEN 1 ELSE 0, 1)],
                     group |-> group]]

\* Triangles facing up, down (the same wound the other way) and sideways.
AxisTriangles == { << 1, 2, 3 >>, << 1, 3, 2 >>, << 1, 3, 4 >> }

\* Up to MaxFacing triangles of these, in every order.
MaxFacing == 3

FacingScenes ==
    { Run(Scene(<< Mesh(MeshName(1), AxisVertices(B1),
                        [i \in 1..n |->
                            [Polygon(lists[i], SKIN, FALSE) EXCEPT
                                 !.face_normal = face_normal(AxisVertices(B1), lists[i])]]) >>,
                << >>, TEX), FALSE) :
          n \in 0..MaxFacing, lists \in [1..MaxFacing -> AxisTriangles] }

\* A fifth vertex, and a polygon of five vertices.
FiveVertices(pattern) ==
    Append(Vertices(pattern, 1),
           [location |-> << R(5, 10), R(15, 10), R(0, 1) >>, group |-> pattern[1]])

Pentagon(material) ==
    [Polygon(<< 1, 2, 3, 4 >>, material, FALSE) EXCEPT
         !.vertices = << 1, 2, 3, 4, 5 >>,
         !.vertex_normals = [i \in 1..5 |-> UP],
         !.uvlist = [i \in 1..5 |-> << R(i, 10), R(1, 2) >>]]

\* A polygon of five vertices alone, and before or after a triangle or a
\* quad.
PentagonScenes ==
    { Run(Scene(<< Mesh(MeshName(1), FiveVertices(pattern), polys) >>, << >>, TEX), FALSE) :
          pattern \in { << B1, B1, B1, B1 >>, << B1, B1, B1, B2 >> },
          polys \in { << Pentagon(METAL) >>,
                      << Pentagon(METAL), Polygon(<< 1, 2, 3 >>, SKIN, FALSE) >>,
                      << Polygon(<< 1, 2, 3, 4 >>, SKIN, FALSE), Pentagon(METAL) >> } }

Runs ==
    PolygonScenes \cup MaterialScenes \cup MeshScenes \cup LongNameScenes
    \cup PlainScenes \cup InterleavedScenes \cup TextureScenes \cup FacingScenes \cup PentagonScenes

(***************************************************************************)
(* Spec: Writer.write                                                      *)
(***************************************************************************)
Init ==
    /\ fp = << >>
    /\ err = "none"
    /\ call = << >>
    /\ ret = << >>
    /\ gx = Emitter
    /\ \E run \in Runs :
          /\ model = run.model
          /\ vtx10 = run.vtx10
          /\ pc = IF run.model.meshes = << >> THEN "animations" ELSE "mesh"
    /\ mesh_i = 1
    /\ group_offsets = << >>
    /\ texture_offsets = << >>
    /\ scale_factor = << >>

\* model.active_mesh = mesh_name; self.output_active_mesh(fp, model, vtx10)
OutputActiveMesh ==
    /\ pc = "mesh"
    /\ \E m1 \in { [model EXCEPT !.active_mesh = model.meshes[mesh_i].name] } :
       \E ctx \in { compile_active_mesh(m1, vtx10) } :
       \E no_points \in { bounding_sphere_raises(m1) } :
          /\ model' = m1
          /\ group_offsets' = ctx.group_offsets
          /\ texture_offsets' = ctx.texture_offsets
          /\ scale_factor' = determine_scale_factor(m1)
          /\ IF ctx.err # "none"
             THEN /\ gx' = ctx.gx
                  /\ fp' = fp
                  /\ err' = ctx.err
                  /\ pc' = "failed"
             ELSE \E written \in { write_chunks(fp,
                      << << DSGX, dsgx_chunk_data(m1, ctx.gx) >> >>
                      \o (IF no_points THEN << >>
                          ELSE << << BSPH, bsph_chunk_data(m1) >>,
                                  << COST, cost_chunk_data(m1.active_mesh,
                                                           max_cull_polys(m1),
                                                           ctx.gx.cycles) >> >>)) } :
                  /\ gx' = [ctx.gx EXCEPT !.offset = 0]
                  /\ fp' = written.fp
                  /\ err' = IF written.err # "none" THEN written.err
                            ELSE IF no_points THEN "ZeroDivisionError"
                            ELSE "none"
                  /\ pc' = IF written.err # "none" \/ no_points THEN "failed" ELSE "bones"
    /\ UNCHANGED <<call, ret, vtx10, mesh_i>>

\* self.output_active_bones(fp, model)
OutputActiveBones ==
    /\ pc = "bones"
    /\ \E written \in { output_active_bones(fp, model, group_offsets) } :
          /\ fp' = written.fp
          /\ err' = written.err
          /\ pc' = IF written.err # "none" THEN "failed" ELSE "textures"
    /\ UNCHANGED <<call, ret, gx, model, vtx10, mesh_i, group_offsets, texture_offsets,
                   scale_factor>>

\* self.output_active_textures(fp, model), then the next mesh or the
\* animations
OutputActiveTextures ==
    /\ pc = "textures"
    /\ \E written \in { fp_write_chunk(fp, TXTR, txtr_chunk_data(model, texture_offsets)) } :
          /\ fp' = written.fp
          /\ err' = written.err
          /\ pc' = IF written.err # "none" THEN "failed"
                   ELSE IF mesh_i < Len(model.meshes) THEN "mesh" ELSE "animations"
          /\ mesh_i' = IF written.err = "none" /\ mesh_i < Len(model.meshes)
                       THEN mesh_i + 1 ELSE mesh_i
    /\ UNCHANGED <<call, ret, gx, model, vtx10, group_offsets, texture_offsets, scale_factor>>

\* self.output_animations(fp, model); fp.close()
OutputAnimations ==
    /\ pc = "animations"
    /\ \E written \in { output_animations(fp, model.animations) } :
          /\ fp' = written.fp
          /\ err' = written.err
          /\ pc' = IF written.err # "none" THEN "failed" ELSE "done"
    /\ UNCHANGED <<call, ret, gx, model, vtx10, mesh_i, group_offsets, texture_offsets,
                   scale_factor>>

Next == OutputActiveMesh \/ OutputActiveBones \/ OutputActiveTextures \/ OutputAnimations

Spec == Init /\ [][Next]_vars

(***************************************************************************)
(* Reading the output stream back                                          *)
(***************************************************************************)
ChunkName(i) == SubSeq(fp[i], 1, 4)

\* The 32-byte string field every chunk payload starts with.
ChunkField(i) == SubSeq(fp[i], 9, 40)

\* A text in a 32-byte field: its first 31 bytes, then zeros.
NameField(text) == [i \in 1..32 |-> IF i <= 31 /\ i <= Len(text) THEN text[i] ELSE 0]

\* Word w (counted from 0) of the instruction stream of a DSGX chunk: the
\* stream follows the chunk header (8 bytes), the mesh name (32 bytes) and
\* the length word (4 bytes).
StreamWord(chunk, w) == SubSeq(chunk, 45 + 4 * w, 48 + 4 * w)

LastChunkNamed(name) ==
    CHOOSE i \in 1..Len(fp) : ChunkName(i) = name /\ \A j \in (i + 1)..Len(fp) : ChunkName(j) # name

\* The word index at which instruction k of the commands starts.
RECURSIVE InstructionStart(_, _)
InstructionStart(commands, k) ==
    IF k = 1 THEN 0
    ELSE InstructionStart(commands, k - 1) + 1 + Len(commands[k - 1].params)

\* The mesh has been compiled and its DSGX chunk written.
MeshCompiled == pc \in { "bones", "textures" } /\ err = "none"

(***************************************************************************)
(* C2: every offset recorded in group_offsets (bones) or texture_offsets   *)
(* (textures) while a mesh is compiled is a word index into the unpacked   *)
(* instruction stream of the mesh's DSGX chunk such that the word at       *)
(* offset - 1 is the opcode word of a matrix-multiply (0x18 = 24) or       *)
(* texture-image-parameter (0x2A = 42) instruction, and the word at the    *)
(* offset is the first parameter word of that same instruction: 4096, the  *)
(* first component of the identity placeholder, for bones.                 *)
(***************************************************************************)
PointsAtParameterOf(chunk, offset, opcode) ==
    /\ offset >= 1
    /\ StreamWord(chunk, offset - 1) = << opcode, 0, 0, 0 >>
    /\ \E k \in 1..Len(gx.commands) :
          /\ InstructionStart(gx.commands, k) = offset - 1
          /\ gx.commands[k].instruction = opcode
          /\ StreamWord(chunk, offset) = gx.commands[k].params[1]

C2_OffsetsPointAtParameters ==
    MeshCompiled =>
        LET chunk == fp[LastChunkNamed(DSGX)]
        IN  /\ \A group \in DOMAIN group_offsets :
                  \A j \in 1..Len(group_offsets[group]) :
                      /\ PointsAtParameterOf(chunk, group_offsets[group][j], 24)
                      /\ WordAt(StreamWord(chunk, group_offsets[group][j]), 1) = 4096
            /\ \A texture \in DOMAIN texture_offsets :
                  \A j \in 1..Len(texture_offsets[texture]) :
                      PointsAtParameterOf(chunk, texture_offsets[texture][j], 42)

\* A mesh with two bones, each tagged, and a texture tagged twice.
C2_Witness ==
    /\ MeshCompiled
    /\ Cardinality(DOMAIN group_offsets) = 2
    /\ \E texture \in DOMAIN texture_offsets : Len(texture_offsets[texture]) = 2

(***************************************************************************)
(* C4: the order of the chunks of a run                                    *)
(***************************************************************************)
RECURSIVE ChunksOfMeshes(_, _, _)
ChunksOfMeshes(meshes, k, per_mesh) ==
    IF k > Len(meshes) THEN << >>
    ELSE [i \in 1..Len(per_mesh) |-> [name |-> per_mesh[i], owner |-> meshes[k].name]]
         \o ChunksOfMeshes(meshes, k + 1, per_mesh)

ChunksOfAnimations(animations) ==
    [k \in 1..Len(animations) |-> [name |-> BANI, owner |-> animations[k].name]]

ChunksWritten == [i \in 1..Len(fp) |-> ChunkName(i)]

NamesOf(chunks) == [i \in 1..Len(chunks) |-> chunks[i].name]

IsPrefix(s, t) == Len(s) <= Len(t) /\ s = SubSeq(t, 1, Len(s))

\* C4 as claimed: for every model, with or without animations, a
\* completed run has written, per mesh in mesh order, the chunks DSGX,
\* BSPH, COST, BONE, TXTR, and after them one BANI chunk per animation.
ChunksClaimed ==
    ChunksOfMeshes(model.meshes, 1, << DSGX, BSPH, COST, BONE, TXTR >>)
    \o ChunksOfAnimations(model.animations)

C4_FiveChunksPerMesh ==
    (pc = "done") => ChunksWritten = NamesOf(ChunksClaimed)

\* C4 as amended: per mesh in mesh order the chunks are DSGX, BSPH, COST,
\* BONE, TXTR when the model has an animation and DSGX, BSPH, COST, TXTR
\* (no BONE chunk) when it has none; one BANI chunk per animation follows
\* the chunks of all meshes.  Every chunk carries the name of its mesh or
\* animation, the stream is at all times a prefix of this sequence, and a
\* completed run has written all of it.
ChunksExpected ==
    ChunksOfMeshes(model.meshes, 1,
                   IF model.animations = << >> THEN << DSGX, BSPH, COST, TXTR >>
                   ELSE << DSGX, BSPH, COST, BONE, TXTR >>)
    \o ChunksOfAnimations(model.animations)

C4_ChunkOrder ==
    /\ IsPrefix(ChunksWritten, NamesOf(ChunksExpected))
    /\ \A i \in 1..Len(fp) : ChunkField(i) = to_dsgx_string(ChunksExpected[i].owner)
    /\ (pc = "done") => Len(fp) = Len(ChunksExpected)

\* Two meshes and two animations: ten mesh chunks, then two BANI chunks.
C4_Witness ==
    /\ pc = "done"
    /\ Len(model.meshes) = 2
    /\ Len(model.animations) = 2
    /\ Len(fp) = 12
    /\ ChunkName(4) = BONE
    /\ ChunkName(11) = BANI

(***************************************************************************)
(* C8: names longer than a string field                                    *)
(***************************************************************************)
\* The name fields of the entries of an offset table, given the bytes that
\* follow the table's count word.
RECURSIVE EntryFields(_)
EntryFields(bytes) ==
    IF Len(bytes) < 36 THEN {}
    ELSE { SubSeq(bytes, 1, 32) }
         \cup EntryFields(SubSeq(bytes, 37 + 4 * WordAt(bytes, 33), Len(bytes)))

TableFields(i) == EntryFields(SubSeq(fp[i], 45, Len(fp[i])))

MeshNamed(name) == CHOOSE k \in 1..Len(model.meshes) : model.meshes[k].name = name

TexturesOf(mesh) ==
    { model.materials[mesh.polygons[i].material].texture :
          i \in { k \in 1..Len(mesh.polygons) : Len(mesh.polygons[k].vertices) \in { 3, 4 } } }
    \ { None }

\* C8 as claimed: a name of more than 32 bytes fails the write, so no
\* chunk is ever written for a mesh or animation with such a name.
C8_LongStringFailsWrite ==
    \A i \in 1..Len(fp) : Len(ChunksExpected[i].owner) <= 32

\* C8 as amended: a name of any length is written as its first 31 bytes
\* followed by zero bytes up to 32, for mesh names (every per-mesh chunk),
\* animation names (BANI), bone names (BONE entries) and texture names
\* (TXTR entries); the length of a name never fails a run.
C8_LongStringShortened ==
    /\ \A i \in 1..Len(fp) :
          /\ ChunkField(i) = NameField(ChunksExpected[i].owner)
          /\ ChunkName(i) = BONE =>
                TableFields(i) = { NameField(node) :
                    node \in DOMAIN model.animations[1].nodes \ { DEFAULT } }
          /\ ChunkName(i) = TXTR =>
                TableFields(i) = { NameField(texture) :
                    texture \in TexturesOf(model.meshes[MeshNamed(ChunksExpected[i].owner)]) }
    /\ (\E k \in 1..Len(model.meshes) : Len(model.meshes[k].name) > 31) => err = "none"

\* A completed run for a mesh, a bone, a texture and an animation with
\* names of 40 bytes.
C8_Witness ==
    /\ pc = "done"
    /\ Len(fp) = 6
    /\ Len(model.meshes[1].name) = 40
    /\ Len(model.animations[1].name) = 40
    /\ \E node \in DOMAIN model.animations[1].nodes : Len(node) = 40
    /\ \E texture \in TexturesOf(model.meshes[1]) : Len(texture) = 40

(***************************************************************************)
(* C9: the polygon attributes of a material                                *)
(***************************************************************************)
\* Bits lower..upper of a word.
Field(word, lower, upper) == (word \div Pow2(lower)) % Pow2(upper - lower + 1)

\* The flags a material name carries: those before its first pipe.
FlagsCarried(name) ==
    IF Positions(name, PIPE) = {} THEN EmptyDict
    ELSE FlagsOfText(SubSeq(name, 1, FirstPipe(name) - 1))

\* The integer value of a flag, or the default when the flag is absent; a
\* flag without a value is True, the integer 1.
FlagValue(name, key, default) ==
    IF key \notin DOMAIN FlagsCarried(name) THEN default
    ELSE IF FlagsCarried(name)[key] = PyTrue THEN 1
    ELSE DigitsValue(FlagsCarried(name)[key])

\* The materials of the triangles and quads of the active mesh.
MaterialsUsed ==
    { ActiveMesh(model).polygons[i].material :
          i \in { k \in 1..Len(ActiveMesh(model).polygons) :
                      Len(ActiveMesh(model).polygons[k].vertices) \in { 3, 4 } } }

\* The polygon-attribute words of the compiled mesh, after the one that
\* write_sane_defaults emits first.
PolygonAttrWords ==
    LET at == { k \in 1..Len(gx.commands) : gx.commands[k].instruction = 41 }
        first == CHOOSE k \in at : \A o \in at : k <= o
    IN  { WordAt(gx.commands[k].params[1], 1) : k \in at \ { first } }

\* C9: the polygon-attribute instructions (opcode 0x29 = 41) of a compiled
\* mesh are those of its materials: for each material an instruction with
\* the integer value of flag alpha in bits 16..20 and of flag id in bits
\* 24..29, with 31 and 0 where the flag or the pipe is absent, and with the
\* four light bits 0..3 set; there is no other.  Values are the values of
\* the fields: alpha 0..31 and id 0..63 (a wider value is cut to the width
\* of its field).
C9_PolygonAttrOfFlags ==
    MeshCompiled =>
        /\ { << Field(w, 16, 20), Field(w, 24, 29), Field(w, 0, 3) >> : w \in PolygonAttrWords }
             = { << FlagValue(m, FLAG_ALPHA, 31) % 32, FlagValue(m, FLAG_ID, 0) % 64, 15 >> :
                     m \in MaterialsUsed }
        /\ \A m \in MaterialsUsed :
              (FlagValue(m, FLAG_ALPHA, 31) \in 0..31 /\ FlagValue(m, FLAG_ID, 0) \in 0..63) =>
                  \E w \in PolygonAttrWords :
                      /\ Field(w, 16, 20) = FlagValue(m, FLAG_ALPHA, 31)
                      /\ Field(w, 24, 29) = FlagValue(m, FLAG_ID, 0)
                      /\ Field(w, 0, 3) = 15

\* "alpha=10,id=2|metal" and a material without flags in one mesh.
C9_Witness ==
    /\ MeshCompiled
    /\ MaterialsUsed = { METAL, SKIN }
    /\ { << Field(w, 16, 20), Field(w, 24, 29) >> : w \in PolygonAttrWords }
         = { << 10, 2 >>, << 31, 0 >> }

(***************************************************************************)
(* SpecEmitter: a fresh Emitter, any sequence of its instruction methods,  *)
(* then the COST chunk written from it                                     *)
(***************************************************************************)
Coords == { R(0, 1), R(-3, 2), R(79, 10) }
Colors == { << R(255, 1), R(0, 1), R(128, 1) >>, << R(51, 2), R(204, 1), R(8, 1) >> }

InitEmitter ==
    /\ fp = <<>>
    /\ err = "none"
    /\ call = <<>>
    /\ ret = <<>>
    /\ gx = Emitter
    /\ WriterIdle

CanEmit == fp = <<>> /\ Len(gx.commands) < MaxCommands

Frame == UNCHANGED <<fp, err, call, ret, writer_vars>>

EmitBeginVtxs ==
    /\ CanEmit /\ Frame
    /\ \E format \in {vtxs_triangle, vtxs_quad} : gx' = Emitter_begin_vtxs(gx, format)

EmitVtx16 ==
    /\ CanEmit /\ Frame
    /\ \E x \in Coords : gx' = Emitter_vtx_16(gx, x, R(1, 1), R(-1, 4))

EmitVtx10 ==
    /\ CanEmit /\ Frame
    /\ \E x \in Coords : gx' = Emitter_vtx_10(gx, x, R(1, 1), R(-1, 4))

EmitPolygonAttr ==
    /\ CanEmit /\ Frame
    /\ \E alpha \in {31, 10}, polygon_id \in {0, 2} :
          gx' = Emitter_polygon_attr(gx, 1, 1, 1, 1, alpha, polygon_id)

EmitColor ==
    /\ CanEmit /\ Frame
    /\ gx' = Emitter_color(gx, 64, 64, 64, TRUE)

EmitNormal ==
    /\ CanEmit /\ Frame
    /\ \E z \in { R(1, 1), R(-1, 1) } : gx' = Emitter_normal(gx, R(0, 1), R(0, 1), z)

EmitDifAmb ==
    /\ CanEmit /\ Frame
    /\ \E c \in Colors : gx' = Emitter_dif_amb(gx, c, c, FALSE, TRUE)

EmitSpeEmi ==
    /\ CanEmit /\ Frame
    /\ \E c \in Colors : gx' = Emitter_spe_emi(gx, c, c, FALSE, TRUE)

EmitPush ==
    /\ CanEmit /\ Frame
    /\ gx' = Emitter_push(gx)

EmitPop ==
    /\ CanEmit /\ Frame
    /\ gx' = Emitter_pop(gx)

EmitMtxMult4x4 ==
    /\ CanEmit /\ Frame
    /\ gx' = Emitter_mtx_mult_4x4(gx, IdentityMatrix)

EmitMtxScale ==
    /\ CanEmit /\ Frame
    /\ \E k \in { R(2, 1), R(10, 79) } : gx' = Emitter_mtx_scale(gx, k, k, k)

EmitTexcoord ==
    /\ CanEmit /\ Frame
    /\ \E u \in { R(0, 1), R(32, 1) } : gx' = Emitter_texcoord(gx, u, R(16, 1))

EmitTeximageParam ==
    /\ CanEmit /\ Frame
    /\ \E size \in { 0, 64 } : gx' = Emitter_teximage_param(gx, 262144, size, size, 7)

EmitTexplltBase ==
    /\ CanEmit /\ Frame
    /\ gx' = Emitter_texpllt_base(gx, 0, 0)

\* fp.write(wrap_chunk("COST", ... struct.pack("<II", max_cull_polys, gx.cycles)))
WriteCostChunk ==
    /\ fp = <<>>
    /\ \E culled \in {0, 1} :
          LET r == fp_write_chunk(fp, COST, cost_chunk_data(Text(2, 0), culled, gx.cycles))
          IN  fp' = r.fp /\ err' = r.err
    /\ UNCHANGED <<call, ret, gx, writer_vars>>

NextEmitter ==
    \/ EmitBeginVtxs \/ EmitVtx16 \/ EmitVtx10 \/ EmitPolygonAttr \/ EmitColor
    \/ EmitNormal \/ EmitDifAmb \/ EmitSpeEmi \/ EmitPush \/ EmitPop
    \/ EmitMtxMult4x4 \/ EmitMtxScale \/ EmitTexcoord \/ EmitTeximageParam
    \/ EmitTexplltBase \/ WriteCostChunk

SpecEmitter == InitEmitter /\ [][NextEmitter]_vars

(***************************************************************************)
(* C3: Emitter.cycles is the sum of the fixed per-opcode costs over the    *)
(* instructions in Emitter.commands.  The sum is taken per opcode (number  *)
(* of instructions of that opcode times its cost), so it depends only on   *)
(* the multiset of instructions, not on their order; the cycle field of    *)
(* the COST chunk written from the Emitter is this total.                  *)
(***************************************************************************)
OpcodeCosts ==
    << << 17, 17 >>, << 18, 36 >>, << 24, 35 >>, << 27, 22 >>, << 35, 9 >>,
       << 36, 8 >>, << 33, 9 >>, << 48, 4 >>, << 49, 4 >>, << 32, 1 >>,
       << 34, 1 >>, << 42, 1 >>, << 43, 1 >>, << 41, 1 >>, << 64, 1 >> >>

CountOf(commands, opcode) ==
    Cardinality({ i \in 1..Len(commands) : commands[i].instruction = opcode })

RECURSIVE CostOverTable(_, _)
CostOverTable(commands, table) ==
    IF table = << >> THEN 0
    ELSE CountOf(commands, Head(table)[1]) * Head(table)[2]
         + CostOverTable(commands, Tail(table))

C3_CostAdditivity ==
    /\ \A i \in 1..Len(gx.commands) :
          \E j \in 1..Len(OpcodeCosts) : OpcodeCosts[j][1] = gx.commands[i].instruction
    /\ gx.cycles = CostOverTable(gx.commands, OpcodeCosts)
    /\ (fp # <<>>) =>
          /\ SubSeq(fp[1], 1, 4) = COST
          /\ WordAt(fp[1], 45) = CostOverTable(gx.commands, OpcodeCosts)

C3_Witness ==
    /\ fp # <<>>
    /\ CountOf(gx.commands, 36) = 1
    /\ CountOf(gx.commands, 18) = 1
    /\ CountOf(gx.commands, 17) = 1
    /\ WordAt(fp[1], 45) = 61

(***************************************************************************)
(* C11: the instructions of a mesh of one flat triangle                    *)
(***************************************************************************)
Opcodes(commands) == [i \in 1..Len(commands) |-> commands[i].instruction]

\* The COST chunk of the active mesh: max_cull_polys and cycles follow the
\* chunk header (8 bytes) and the mesh name (32 bytes).
CostChunkMax == WordAt(fp[LastChunkNamed(COST)], 41)
CostChunkCycles == WordAt(fp[LastChunkNamed(COST)], 45)

\* The cost of an opcode in the table.
CostOf(opcode) ==
    LET j == CHOOSE k \in 1..Len(OpcodeCosts) : OpcodeCosts[k][1] = opcode
    IN  OpcodeCosts[j][2]

RECURSIVE CostOfAll(_)
CostOfAll(opcodes) ==
    IF opcodes = << >> THEN 0 ELSE CostOf(Head(opcodes)) + CostOfAll(Tail(opcodes))

\* The mesh of the scenario: one flat triangle, one untextured material
\* without flags, identity global transform, scale factor 1.
PlainTriangle ==
    /\ pc = "textures"
    /\ Len(model.meshes) = 1
    /\ model.global_matrix = IdentityMatrix
    /\ scale_factor = R(1, 1)
    /\ Len(ActiveMesh(model).polygons) = 1
    /\ Len(ActiveMesh(model).polygons[1].vertices) = 3
    /\ ~ActiveMesh(model).polygons[1].smooth_shading
    /\ ActiveMesh(model).polygons[1].material = SKIN

VertexOpcode == IF vtx10 THEN 36 ELSE 35

\* C11 as claimed: the instructions are color, polygon attributes,
\* diffuse/ambient, push, matrix multiply, begin (triangles), normal, three
\* vertices, pop; the cycles of the COST chunk are the cost of exactly
\* these, and its polygon count is 1.
ClaimedPlainOpcodes ==
    << 32, 41, 48, 17, 24, 64, 33, VertexOpcode, VertexOpcode, VertexOpcode, 18 >>

C11_PlainTriangleAsClaimed ==
    PlainTriangle =>
        /\ Opcodes(gx.commands) = ClaimedPlainOpcodes
        /\ CostChunkCycles = CostOfAll(ClaimedPlainOpcodes)
        /\ CostChunkMax = 1

\* C11 as amended: after the defaults (color, polygon attributes,
\* diffuse/ambient), push and the global matrix multiply, every group of
\* the model in order gets push, matrix multiply (identity), begin
\* (triangles), begin (quads), pop; in the group of the triangle the
\* material block (texture parameters, polygon attributes, diffuse/ambient,
\* specular/emission), a second begin (triangles), the normal and the three
\* vertices stand between the two.  The mixed-group pass adds begin
\* (triangles), begin (quads), and a pop ends the stream.  The global
\* matrix multiply is in no offset table, the cycles of the COST chunk are
\* the cost of all these instructions, and its polygon count is 1.
RECURSIVE GroupBlocks(_, _, _)
GroupBlocks(groups, k, face_group) ==
    IF k > Len(groups) THEN << >>
    ELSE << 17, 24, 64 >>
         \o (IF groups[k] = face_group
             THEN << 42, 41, 48, 49, 64, 33, VertexOpcode, VertexOpcode, VertexOpcode >>
             ELSE << >>)
         \o << 64, 18 >>
         \o GroupBlocks(groups, k + 1, face_group)

PlainOpcodes ==
    << 32, 41, 48, 17, 24 >>
    \o GroupBlocks(model.groups, 1, vertexGroup(ActiveMesh(model), ActiveMesh(model).polygons[1]))
    \o << 64, 64, 18 >>

C11_PlainTriangle ==
    PlainTriangle =>
        /\ Opcodes(gx.commands) = PlainOpcodes
        /\ \A group \in DOMAIN group_offsets :
              \A j \in 1..Len(group_offsets[group]) : group_offsets[group][j] # 8
        /\ texture_offsets = EmptyDict
        /\ CostChunkCycles = CostOfAll(PlainOpcodes)
        /\ CostChunkMax = 1

\* The triangle in the default group, 16-bit vertices: 22 instructions of
\* 233 cycles.
C11_Witness ==
    /\ PlainTriangle
    /\ model.groups = << DEFAULT >>
    /\ ~vtx10
    /\ Len(gx.commands) = 22
    /\ CostChunkCycles = 233

(***************************************************************************)
(* C12: a triangle and a quad of one group and one material                *)
(***************************************************************************)
\* The begin-vertex-list instructions that declare the given format.
BeginsOf(commands, format) ==
    Cardinality({ i \in 1..Len(commands) :
                      /\ commands[i].instruction = 64
                      /\ commands[i].params = << LE32(format) >> })

\* The active mesh is one triangle and one quad, of the same material, both
\* wholly in the same group.
TriangleAndQuad ==
    /\ MeshCompiled
    /\ Len(ActiveMesh(model).polygons) = 2
    /\ LET mesh == ActiveMesh(model)
           a == mesh.polygons[1]
           b == mesh.polygons[2]
       IN  /\ { Len(a.vertices), Len(b.vertices) } = { 3, 4 }
           /\ a.material = b.material
           /\ ~isMixed(mesh, a) /\ ~isMixed(mesh, b)
           /\ vertexGroup(mesh, a) = vertexGroup(mesh, b)

\* C12 as claimed: the stream holds exactly two begin-vertex-list
\* instructions, one for triangles and one for quads, and the material
\* block once.
C12_TwoBeginsAsClaimed ==
    TriangleAndQuad =>
        /\ CountOf(gx.commands, 64) = 2
        /\ BeginsOf(gx.commands, vtxs_triangle) = 1
        /\ BeginsOf(gx.commands, vtxs_quad) = 1
        /\ CountOf(gx.commands, 42) = 1

\* C12 as amended: the material block (texture parameters, specular and
\* emission once; polygon attributes and diffuse/ambient once more than
\* the defaults) is emitted exactly once, and the stream holds one
\* begin-vertex-list for triangles and one for quads per group of the
\* model, one of each for the mixed-group pass, and one more for triangles
\* after the material block: 2 * groups + 3 in all.
C12_BeginsPerGroup ==
    TriangleAndQuad =>
        /\ CountOf(gx.commands, 42) = 1
        /\ CountOf(gx.commands, 49) = 1
        /\ CountOf(gx.commands, 41) = 2
        /\ CountOf(gx.commands, 48) = 2
        /\ BeginsOf(gx.commands, vtxs_triangle) = Len(model.groups) + 2
        /\ BeginsOf(gx.commands, vtxs_quad) = Len(model.groups) + 1
        /\ CountOf(gx.commands, 64) = 2 * Len(model.groups) + 3

\* The quad comes first in the mesh, both in group B1: seven begins.
C12_Witness ==
    /\ TriangleAndQuad
    /\ Len(ActiveMesh(model).polygons[1].vertices) = 4
    /\ model.groups = << DEFAULT, B1 >>
    /\ CountOf(gx.commands, 64) = 7

(***************************************************************************)
(* C13: scaled vertex coordinates fit their fixed-point fields             *)
(***************************************************************************)
\* The coordinates of the vertices the triangles and quads of the active
\* mesh use, multiplied by the scale factor.
UsedLocations ==
    LET mesh == ActiveMesh(model)
        used == UNION { { mesh.polygons[f].vertices[p] : p \in 1..Len(mesh.polygons[f].vertices) } :
                            f \in { g \in 1..Len(mesh.polygons) :
                                        Len(mesh.polygons[g].vertices) \in { 3, 4 } } }
    IN  { [axis \in 1..3 |-> RMul(mesh.vertices[v].location[axis], scale_factor)] : v \in used }

\* The value of a signed fixed-point field of the given width, as its
\* two's-complement bit pattern.
TwosComplement(value, width) == IF value >= 0 THEN value ELSE value + Pow2(width)

Fits(value, width) == -Pow2(width - 1) <= value /\ value < Pow2(width - 1)

\* A coordinate strictly inside (-8, 8).
InsideEight(x) == RLess(R(-8, 1), x) /\ RLess(x, R(8, 1))

\* The parameter words of a vertex instruction, from the fields.
VertexWords(location, v10) ==
    IF v10
    THEN << LE32(TwosComplement(TruncDiv(location[1].n * 64, location[1].d), 10)
                 + TwosComplement(TruncDiv(location[2].n * 64, location[2].d), 10) * 1024
                 + TwosComplement(TruncDiv(location[3].n * 64, location[3].d), 10) * 1048576) >>
    ELSE << LE16x2(TwosComplement(TruncDiv(location[1].n * 4096, location[1].d), 16),
                   TwosComplement(TruncDiv(location[2].n * 4096, location[2].d), 16)),
            LE32(TwosComplement(TruncDiv(location[3].n * 4096, location[3].d), 16)) >>

VertexParams ==
    { gx.commands[i].params :
          i \in { j \in 1..Len(gx.commands) : gx.commands[j].instruction \in { 35, 36 } } }

\* C13: in a compiled mesh every coordinate times the scale factor lies
\* strictly inside (-8, 8), its fixed-point value fits the signed field of
\* 16 bits (12 of fraction) or 10 bits (6 of fraction), and the vertex
\* instructions of the stream carry exactly the two's-complement patterns
\* of these values, in the instruction of the precision asked for.
C13_ScaledVerticesFit ==
    MeshCompiled =>
        /\ \A location \in UsedLocations : \A axis \in 1..3 :
              /\ InsideEight(location[axis])
              /\ Fits(TruncDiv(location[axis].n * 4096, location[axis].d), 16)
              /\ Fits(TruncDiv(location[axis].n * 64, location[axis].d), 10)
        /\ VertexParams = { VertexWords(location, vtx10) : location \in UsedLocations }
        /\ \A i \in 1..Len(gx.commands) :
              gx.commands[i].instruction # (IF vtx10 THEN 35 ELSE 36)

\* A mesh larger than the range (a coordinate of 9) is scaled down, with a
\* negative coordinate among the vertices drawn.
C13_Witness ==
    /\ MeshCompiled
    /\ RLess(scale_factor, R(1, 1))
    /\ vtx10
    /\ \E v \in 1..Len(ActiveMesh(model).vertices) :
          RLess(R(8, 1), ActiveMesh(model).vertices[v].location[1])
    /\ \E location \in UsedLocations : \E axis \in 1..3 : RLess(location[axis], R(0, 1))
    /\ VertexParams # { }

(***************************************************************************)
(* C14: Writer.write and the model it is given                             *)
(***************************************************************************)
\* The models write is called with.
ModelsGiven == { run.model : run \in Runs }

WriteEnded == pc \in { "done", "failed" }

\* C14 as claimed: when write has ended, with or without an exception, the
\* model has in every attribute the value it had before the call.  Every
\* model is handed to write as it was built, so an unchanged model is
\* still one of the models as built: its active mesh is the mesh addMesh
\* made active.
C14_ModelUnchanged == WriteEnded => model \in ModelsGiven

(***************************************************************************)
(* model2dsgx.py: the command line                                         *)
(***************************************************************************)
MaxStemLen == 2

\* os.path.splitext: the extension starts at the last dot of the last path
\* component, unless only dots precede it there.
splitext(p) ==
    LET sepIndex == IF \E i \in 1..Len(p) : p[i] = 47
                    THEN CHOOSE i \in 1..Len(p) :
                             p[i] = 47 /\ \A j \in (i + 1)..Len(p) : p[j] # 47
                    ELSE 0
        dotIndex == IF \E i \in 1..Len(p) : p[i] = 46
                    THEN CHOOSE i \in 1..Len(p) :
                             p[i] = 46 /\ \A j \in (i + 1)..Len(p) : p[j] # 46
                    ELSE 0
    IN  IF dotIndex > sepIndex /\ \E k \in (sepIndex + 1)..(dotIndex - 1) : p[k] # 46
        THEN << SubSeq(p, 1, dotIndex - 1), SubSeq(p, dotIndex, Len(p)) >>
        ELSE << p, << >> >>

DSGX_EXTENSION == << 46, 100, 115, 103, 120 >>
FBX_EXTENSION == << 46, 102, 98, 120 >>
OBJ_EXTENSION == << 46, 111, 98, 106 >>

substitute_extension(filename, extension) == splitext(filename)[1] \o extension

file_extension(filename) == splitext(filename)[2]

_readers ==
    (FBX_EXTENSION :> "read_autodesk_fbx") @@ (OBJ_EXTENSION :> "read_wavefront_obj")

known_file_type(filename) == file_extension(filename) \in DOMAIN _readers

determine_output_filename(input_filename, args) ==
    IF "<output_filename>" \in DOMAIN args
    THEN args["<output_filename>"]
    ELSE substitute_extension(input_filename, DSGX_EXTENSION)

\* load_model: the reader the filename is handed to.
load_model_reader(filename) ==
    IF known_file_type(filename)
    THEN _readers[file_extension(filename)]
    ELSE "read_using_assimp"

adjust_logging_level(arguments) ==
    IF arguments["--debug"] THEN "DEBUG"
    ELSE IF arguments["--quiet"] THEN "WARN"
    ELSE "INFO"

\* Input filenames: a stem of up to MaxStemLen of "a", "." and "/", and an
\* ending.
Stems == UNION { [1..n -> { 97, 46, 47 }] : n \in 0..MaxStemLen }

Endings ==
    { << >>, << 46 >>, OBJ_EXTENSION, FBX_EXTENSION,
      << 46, 100, 97, 101 >>, << 46, 79, 66, 74 >> }

InputFilenames == { stem \o ending : stem \in Stems, ending \in Endings } \ { << >> }

OutputFilenames == { << 111, 117, 116 >>, << 111, 46, 98, 105, 110 >> }

\* docopt: every element of the usage is a key of the mapping, an argument
\* that was not given has the value None.
Arguments ==
    { ("<input_filename>" :> input) @@ ("<output_filename>" :> output)
      @@ ("--debug" :> debug) @@ ("--quiet" :> quiet) @@ ("--vtx10" :> v10)
      @@ ("--help" :> FALSE) @@ ("--version" :> FALSE) :
          input \in InputFilenames, output \in { None } \cup OutputFilenames,
          debug \in BOOLEAN, quiet \in BOOLEAN, v10 \in BOOLEAN }

\* The process before main has run: no reader called, nothing written, no
\* exit status yet.
CliStart ==
    [log_level |-> "WARNING", output_filename |-> << >>, reader |-> "none",
     loaded |-> "none", status |-> -1, diagnostic |-> "none", written |-> FALSE]

InitCli ==
    /\ fp = << >>
    /\ err = "none"
    /\ gx = Emitter
    /\ model = << >>
    /\ vtx10 = FALSE
    /\ mesh_i = 0
    /\ group_offsets = << >>
    /\ texture_offsets = << >>
    /\ scale_factor = << >>
    /\ pc = "main"
    /\ call \in Arguments
    /\ ret = CliStart

\* main up to load_model: adjust_logging_level and
\* determine_output_filename.
MainArguments ==
    /\ pc = "main"
    /\ ret' = [ret EXCEPT !.log_level = adjust_logging_level(call),
                          !.output_filename =
                              determine_output_filename(call["<input_filename>"], call)]
    /\ pc' = "load_model"
    /\ UNCHANGED <<fp, err, call, gx, model, vtx10, mesh_i, group_offsets,
                   texture_offsets, scale_factor>>

\* load_model: the reader of the extension, or assimp for every other
\* filename.  A reader returns its result (a Model; None from the assimp
\* reader) or raises, which ends the process with the traceback and status
\* 1.
LoadModel ==
    /\ pc = "load_model"
    /\ \E reader \in { load_model_reader(call["<input_filename>"]) } :
       \E raised \in BOOLEAN :
          IF raised
          THEN /\ ret' = [ret EXCEPT !.reader = reader, !.status = 1,
                                     !.diagnostic = "traceback of the reader"]
               /\ err' = "ReaderError"
               /\ pc' = "exit"
          ELSE /\ ret' = [ret EXCEPT !.reader = reader,
                                     !.loaded = IF reader = "read_using_assimp"
                                                THEN "None" ELSE "Model"]
               /\ err' = err
               /\ pc' = "display_model_info"
    /\ UNCHANGED <<fp, call, gx, model, vtx10, mesh_i, group_offsets,
                   texture_offsets, scale_factor>>

\* display_model_info: neither Model nor None has the attribute polygons,
\* so the first line raises and the process ends with the traceback and
\* status 1; save_model_as_dsgx is not reached.
DisplayModelInfo ==
    /\ pc = "display_model_info"
    /\ ret' = [ret EXCEPT !.status = 1, !.diagnostic = "traceback of AttributeError"]
    /\ err' = "AttributeError"
    /\ pc' = "exit"
    /\ UNCHANGED <<fp, call, gx, model, vtx10, mesh_i, group_offsets,
                   texture_offsets, scale_factor>>

NextCli == MainArguments \/ LoadModel \/ DisplayModelInfo

SpecCli == InitCli /\ [][NextCli]_vars

(***************************************************************************)
(* C15: an input filename of unknown extension                             *)
(***************************************************************************)
UnknownExtension ==
    /\ pc \in { "display_model_info", "exit" }
    /\ file_extension(call["<input_filename>"]) \notin { FBX_EXTENSION, OBJ_EXTENSION }

\* C15 as claimed: for a filename whose extension is neither .fbx nor .obj
\* no importer is invoked and nothing is written, and the process ends
\* with a non-zero status.
C15_UnknownExtensionRejected ==
    UnknownExtension =>
        /\ ret.reader = "none"
        /\ ~ret.written
        /\ pc = "exit" => ret.status # 0

(***************************************************************************)
(* C16: the output filename                                                *)
(***************************************************************************)
OutputDetermined == pc \in { "load_model", "display_model_info", "exit" }

\* C16 as claimed: without an output filename (the key holds None) the
\* output filename is the input filename with its extension replaced by
\* .dsgx; with one, it is that filename.
C16_OutputFilename ==
    OutputDetermined =>
        ret.output_filename =
            IF call["<output_filename>"] = None
            THEN splitext(call["<input_filename>"])[1] \o DSGX_EXTENSION
            ELSE call["<output_filename>"]

(***************************************************************************)
(* C17: the entries of the BONE chunk                                      *)
(***************************************************************************)
\* The offsets of a table entry: count words from the given byte on.
EntryOffsets(bytes, from, count) == [k \in 1..count |-> WordAt(bytes, from + 4 * (k - 1))]

\* The entries of an offset table as read by a loader: a 32-byte name, a
\* count, that many offsets.  Bytes that are no whole entry give an entry
\* without a name.
RECURSIVE TableEntries(_)
TableEntries(bytes) ==
    IF bytes = << >> THEN << >>
    ELSE IF Len(bytes) < 36 \/ Len(bytes) < 36 + 4 * WordAt(bytes, 33)
    THEN << [name |-> << >>, offsets |-> << >>] >>
    ELSE << [name |-> SubSeq(bytes, 1, 32),
             offsets |-> EntryOffsets(bytes, 37, WordAt(bytes, 33))] >>
         \o TableEntries(SubSeq(bytes, 37 + 4 * WordAt(bytes, 33), Len(bytes)))

\* The entries of the last chunk of the given name.
EntriesOfLast(name) ==
    TableEntries(SubSeq(fp[LastChunkNamed(name)], 45, Len(fp[LastChunkNamed(name)])))

\* The BONE chunk of the active mesh has been written.
BonesWritten == pc = "textures" /\ err = "none" /\ model.animations # << >>

\* The bones of the animation the chunk is written from.
BonesOfChunk == DOMAIN model.animations[1].nodes \ { DEFAULT }

\* C17: the BONE chunk of a mesh holds one entry for every bone other than
\* "default" of the node set of the (first) animation and no other entry,
\* in strictly ascending order of name; the entry of a bone without
\* offsets recorded for the mesh has count 0 and no offset words, and the
\* entry of a bone with recorded offsets holds exactly these, in the order
\* recorded.
C17_BoneEntries ==
    BonesWritten =>
        LET entries == EntriesOfLast(BONE)
        IN  /\ Len(entries) = Cardinality(BonesOfChunk)
            /\ { entries[k].name : k \in 1..Len(entries) }
                   = { NameField(bone) : bone \in BonesOfChunk }
            /\ \A j \in 1..Len(entries) : \A k \in (j + 1)..Len(entries) :
                  LexLess(entries[j].name, entries[k].name)
            /\ \A k \in 1..Len(entries) : \A bone \in BonesOfChunk :
                  entries[k].name = NameField(bone) =>
                      entries[k].offsets = IF bone \in DOMAIN group_offsets
                                           THEN group_offsets[bone] ELSE << >>

\* Bone b1 with several recorded offsets, bone b2 with none.
C17_Witness ==
    /\ BonesWritten
    /\ BonesOfChunk = { B1, B2 }
    /\ B2 \notin DOMAIN group_offsets
    /\ Len(EntriesOfLast(BONE)) = 2
    /\ Len(EntriesOfLast(BONE)[1].offsets) >= 2
    /\ EntriesOfLast(BONE)[2].offsets = << >>

(***************************************************************************)
(* C18: the bones of a BANI frame and the entries of the BONE chunk        *)
(***************************************************************************)
\* All chunks are written, and there is a BONE chunk to compare with.
AnimationsWritten ==
    /\ pc = "done" /\ err = "none"
    /\ model.meshes # << >> /\ model.animations # << >>

\* The BANI chunk of animation a: the BANI chunks end the file, in the
\* order of the animations.
BaniChunk(a) == fp[Len(fp) - Len(model.animations) + a]

\* Matrix k (from 1) of frame f (from 1) of a BANI chunk whose frames hold
\* n matrices: 64 bytes after the header, the name and the length.
BaniMatrix(chunk, n, f, k) ==
    SubSeq(chunk, 45 + 64 * ((f - 1) * n + (k - 1)), 44 + 64 * ((f - 1) * n + k))

\* The bone of entry k of the BONE chunk.
BoneOfEntry(k) ==
    CHOOSE bone \in BonesOfChunk : NameField(bone) = EntriesOfLast(BONE)[k].name

\* C18 as claimed: for every animation, also of a model whose animations
\* have different node sets, every frame of its BANI chunk holds one
\* matrix of 16 words per bone other than "default" of the animation
\* (frames x bones matrices in all), and the matrix at position k of a
\* frame is the transform of the bone of entry k of the BONE chunk.
C18_BaniOrderIsBoneOrder ==
    AnimationsWritten =>
        \A a \in 1..Len(model.animations) :
            LET animation == model.animations[a]
                n == Cardinality(DOMAIN animation.nodes \ { DEFAULT })
            IN  /\ Len(BaniChunk(a)) = 44 + 64 * animation.length * n
                /\ \A f \in 1..animation.length : \A k \in 1..n :
                      /\ k <= Len(EntriesOfLast(BONE))
                      /\ BoneOfEntry(k) \in DOMAIN animation.nodes
                      /\ BaniMatrix(BaniChunk(a), n, f, k)
                             = matrix_words(animation.nodes[BoneOfEntry(k)][f])

(***************************************************************************)
(* C19: the entries of the TXTR chunk                                      *)
(***************************************************************************)
\* The TXTR chunk of the active mesh has been written.
TexturesWritten ==
    /\ pc \in { "mesh", "animations" } /\ err = "none"
    /\ \E i \in 1..Len(fp) : ChunkName(i) = TXTR

\* The bytes an offset table takes: per entry a name, a count and the
\* offsets.
RECURSIVE EntriesLen(_)
EntriesLen(entries) ==
    IF entries = << >> THEN 0
    ELSE 36 + 4 * Len(Head(entries).offsets) + EntriesLen(Tail(entries))

\* C19: in the TXTR chunk of a mesh the count field is the number of
\* entries that follow, the entries fill the chunk (each count is the
\* number of offset words of its entry), one per texture of the materials
\* of the mesh, in strictly ascending order of name, each with the offsets
\* recorded for its texture; a mesh without textured material has count 0
\* and no entry.
C19_TextureEntries ==
    TexturesWritten =>
        LET chunk == fp[LastChunkNamed(TXTR)]
            entries == EntriesOfLast(TXTR)
            textures == TexturesOf(ActiveMesh(model))
        IN  /\ WordAt(chunk, 41) = Len(entries)
            /\ Len(chunk) = 44 + EntriesLen(entries)
            /\ \A k \in 1..Len(entries) : Len(entries[k].name) = 32
            /\ \A j \in 1..Len(entries) : \A k \in (j + 1)..Len(entries) :
                  LexLess(entries[j].name, entries[k].name)
            /\ { entries[k].name : k \in 1..Len(entries) }
                   = { NameField(texture) : texture \in textures }
            /\ \A k \in 1..Len(entries) : \A texture \in textures :
                  entries[k].name = NameField(texture) =>
                      entries[k].offsets = texture_offsets[texture]
            /\ textures = { } => WordAt(chunk, 41) = 0 /\ Len(chunk) = 44

\* Two textures met in descending order of name, the later name written
\* first; the other texture has two offsets.
C19_Witness ==
    /\ TexturesWritten
    /\ TexturesOf(ActiveMesh(model)) = { TEX, ABC }
    /\ ActiveMesh(model).polygons[1].material = METAL
    /\ WordAt(fp[LastChunkNamed(TXTR)], 41) = 2
    /\ EntriesOfLast(TXTR)[1].name = NameField(ABC)
    /\ Len(EntriesOfLast(TXTR)[2].offsets) = 2

\* A mesh without textured material: count 0, no entry.
C19_WitnessUntextured ==
    /\ TexturesWritten
    /\ TexturesOf(ActiveMesh(model)) = { }
    /\ ActiveMesh(model).polygons # << >>
    /\ Len(fp[LastChunkNamed(TXTR)]) = 44

(***************************************************************************)
(* C20: material blocks of the single-group pass                           *)
(***************************************************************************)
\* All polygons of the active mesh are wholly in one group and have one
\* vertex count, so all are drawn in one face loop of the single-group
\* pass.
OneFaceLoop ==
    /\ MeshCompiled
    /\ LET mesh == ActiveMesh(model)
       IN  /\ mesh.polygons # << >>
           /\ \A f \in 1..Len(mesh.polygons) :
                 /\ ~isMixed(mesh, mesh.polygons[f])
                 /\ vertexGroup(mesh, mesh.polygons[f]) = vertexGroup(mesh, mesh.polygons[1])
                 /\ Len(mesh.polygons[f].vertices) = Len(mesh.polygons[1].vertices)

MaterialsOfMesh ==
    { ActiveMesh(model).polygons[f].material : f \in 1..Len(ActiveMesh(model).polygons) }

\* C20 as claimed: whatever the order of the polygons, the material block
\* (it starts with the texture parameters, opcode 42) of every material is
\* emitted at most once within one group and vertex count, so the stream
\* holds at most as many blocks as the polygons have materials.
C20_BlockOncePerMaterial ==
    OneFaceLoop => CountOf(gx.commands, 42) <= Cardinality(MaterialsOfMesh)

(***************************************************************************)
(* C21: the vertices of the mixed-group pass                               *)
(***************************************************************************)
\* The indexes of the instructions of the given opcodes, ascending.
IndexesOf(commands, opcodes) ==
    SelectSeq([i \in 1..Len(commands) |-> i],
              LAMBDA i : commands[i].instruction \in opcodes)

\* The first instruction of the mixed-group pass: the single-group pass
\* ends with the pop of the last group of the model, and holds no other
\* pop.
MixedStart == IndexesOf(gx.commands, { 18 })[Len(model.groups)] + 1

\* The vertices of the mixed polygons in the order of the pass, as polygon
\* and position: triangles first, then quads, each in mesh order.
RECURSIVE MixedCorners(_, _, _)
MixedCorners(mesh, polytype, f) ==
    IF f > Len(mesh.polygons) THEN << >>
    ELSE (IF Len(mesh.polygons[f].vertices) = polytype /\ isMixed(mesh, mesh.polygons[f])
          THEN [p \in 1..polytype |-> [face |-> f, p |-> p]]
          ELSE << >>)
         \o MixedCorners(mesh, polytype, f + 1)

MixedOrder == MixedCorners(ActiveMesh(model), 3, 1) \o MixedCorners(ActiveMesh(model), 4, 1)

\* The vertex instructions of the mixed-group pass.
MixedVertexIndexes ==
    SelectSeq(IndexesOf(gx.commands, { 35, 36 }), LAMBDA i : i >= MixedStart)

\* The scaled location of vertex p of polygon f of the active mesh.
CornerLocation(corner) ==
    LET mesh == ActiveMesh(model)
        vertex == mesh.vertices[mesh.polygons[corner.face].vertices[corner.p]]
    IN  [axis \in 1..3 |-> RMul(vertex.location[axis], scale_factor)]

CornerGroup(corner) ==
    LET mesh == ActiveMesh(model)
    IN  mesh.vertices[mesh.polygons[corner.face].vertices[corner.p]].group

\* The offsets recorded under a group.
OffsetsUnder(group) ==
    IF group \in DOMAIN group_offsets
    THEN { group_offsets[group][j] : j \in 1..Len(group_offsets[group]) }
    ELSE { }

\* The parameters of the placeholder: the identity in 20.12 fixed point.
IdentityWords == [i \in 1..16 |-> LE32(IF i \in { 1, 6, 11, 16 } THEN 4096 ELSE 0)]

\* C21: the mixed-group pass holds one vertex instruction per vertex of
\* every mixed polygon, in the order of the pass.  Each is directly
\* followed by a pop and preceded by push, matrix multiply (identity) and,
\* for a smooth polygon only, a normal between the multiply and the
\* vertex; the offset of the first parameter of the multiply is recorded
\* under the group of that vertex.  The pass holds no other push, and no
\* other pop but the one that ends the stream.
C21_MixedVertexBrackets ==
    MeshCompiled =>
        LET commands == gx.commands
            at == MixedVertexIndexes
            smooth(k) == ActiveMesh(model).polygons[MixedOrder[k].face].smooth_shading
            mult(k) == IF smooth(k) THEN at[k] - 2 ELSE at[k] - 1
        IN  /\ Len(at) = Len(MixedOrder)
            /\ \A k \in 1..Len(at) :
                  /\ commands[at[k]].params = VertexWords(CornerLocation(MixedOrder[k]), vtx10)
                  /\ commands[at[k] + 1].instruction = 18
                  /\ smooth(k) => commands[at[k] - 1].instruction = 33
                  /\ commands[mult(k)].instruction = 24
                  /\ commands[mult(k)].params = IdentityWords
                  /\ commands[mult(k) - 1].instruction = 17
                  /\ mult(k) - 1 >= MixedStart
                  /\ InstructionStart(commands, mult(k)) + 1
                         \in OffsetsUnder(CornerGroup(MixedOrder[k]))
            /\ Cardinality({ i \in MixedStart..Len(commands) : commands[i].instruction = 17 })
                   = Len(at)
            /\ Cardinality({ i \in MixedStart..Len(commands) : commands[i].instruction = 18 })
                   = Len(at) + 1

\* A smooth mixed polygon and a flat one, with a vertex of the default
\* group among them.
C21_Witness ==
    /\ MeshCompiled
    /\ Len(MixedOrder) = 7
    /\ \E k \in 1..7 : CornerGroup(MixedOrder[k]) = DEFAULT
    /\ ActiveMesh(model).polygons[MixedOrder[1].face].smooth_shading
    /\ ~ActiveMesh(model).polygons[MixedOrder[4].face].smooth_shading
    /\ DEFAULT \in DOMAIN group_offsets

(***************************************************************************)
(* C22: the inverse scale                                                  *)
(***************************************************************************)
\* 1 / scale factor in 20.12 fixed point.
InverseScaleWord == LE32(TruncDiv(scale_factor.d * 4096, scale_factor.n))

Scaled == scale_factor.n # scale_factor.d

\* C22: the stream of a mesh starts with the three defaults, push and the
\* multiply by the global matrix.  When the scale factor is not 1 the next
\* instruction is a matrix scale (opcode 27) of three words, each 1 /
\* scale factor in fixed point, followed by the push of the first group,
\* and it is the only matrix scale of the stream; when the scale factor is
\* 1 the push of the first group follows the multiply and the stream holds
\* no matrix scale.
C22_InverseScale ==
    MeshCompiled =>
        /\ Opcodes(SubSeq(gx.commands, 1, 5)) = << 32, 41, 48, 17, 24 >>
        /\ gx.commands[5].params
               = [i \in 1..16 |-> LE32(TruncDiv(model.global_matrix[i].n * 4096,
                                                model.global_matrix[i].d))]
        /\ IF Scaled
           THEN /\ gx.commands[6].instruction = 27
                /\ gx.commands[6].params
                       = << InverseScaleWord, InverseScaleWord, InverseScaleWord >>
                /\ gx.commands[7].instruction = 17
                /\ CountOf(gx.commands, 27) = 1
           ELSE /\ gx.commands[6].instruction = 17
                /\ CountOf(gx.commands, 27) = 0

\* A mesh wider than 7.9 (scale factor 7.9 / 11.7): one matrix scale.
C22_Witness ==
    /\ MeshCompiled
    /\ Scaled
    /\ RLess(scale_factor, R(1, 1))
    /\ gx.commands[6].instruction = 27
    /\ ActiveMesh(model).polygons # << >>

\* A mesh inside the range: no matrix scale.
C22_WitnessUnscaled ==
    /\ MeshCompiled
    /\ ~Scaled
    /\ CountOf(gx.commands, 27) = 0
    /\ ActiveMesh(model).polygons # << >>

(***************************************************************************)
(* C23: the offset tables of a mesh among several                          *)
(***************************************************************************)
\* All offsets of the entries of a table.
OffsetsOfEntries(entries) ==
    UNION { { entries[k].offsets[j] : j \in 1..Len(entries[k].offsets) } :
                k \in 1..Len(entries) }

\* The number of offsets of the entries of a table.
OffsetCount(entries) == (EntriesLen(entries) - 36 * Len(entries)) \div 4

\* The placeholders the mesh has for the bones of the BONE chunk: one per
\* such group of the model in the single-group pass, one per vertex of
\* such a group in the mixed-group pass.
PlaceholdersOfBones ==
    Cardinality({ g \in 1..Len(model.groups) : model.groups[g] \in BonesOfChunk })
    + Cardinality({ k \in 1..Len(MixedOrder) : CornerGroup(MixedOrder[k]) \in BonesOfChunk })

\* C23: when the chunks of a mesh are written, its TXTR chunk (and its
\* BONE chunk, for a model with animations) carries the name of the mesh,
\* and every offset in it is below the word count of the DSGX chunk of
\* this mesh and is the parameter offset of a texture-parameter
\* instruction (of a matrix-multiply placeholder) of this mesh's stream;
\* no offset appears twice, the TXTR chunk holds one offset per textured
\* material block of this stream, and the BONE chunk one per placeholder
\* this mesh has for the bones written, whatever the meshes before it
\* recorded.
C23_TablesPerMesh ==
    TexturesWritten =>
        LET dsgx == fp[LastChunkNamed(DSGX)]
            textures == EntriesOfLast(TXTR)
            bones == IF model.animations = << >> THEN << >> ELSE EntriesOfLast(BONE)
        IN  /\ ChunkField(LastChunkNamed(DSGX)) = NameField(model.active_mesh)
            /\ ChunkField(LastChunkNamed(TXTR)) = NameField(model.active_mesh)
            /\ model.animations # << >> =>
                   ChunkField(LastChunkNamed(BONE)) = NameField(model.active_mesh)
            /\ \A offset \in OffsetsOfEntries(textures) :
                  offset < WordAt(dsgx, 41) /\ PointsAtParameterOf(dsgx, offset, 42)
            /\ \A offset \in OffsetsOfEntries(bones) :
                  offset < WordAt(dsgx, 41) /\ PointsAtParameterOf(dsgx, offset, 24)
            /\ Cardinality(OffsetsOfEntries(textures)) = OffsetCount(textures)
            /\ Cardinality(OffsetsOfEntries(bones)) = OffsetCount(bones)
            /\ OffsetCount(textures) = CountOf(gx.commands, 43)
            /\ model.animations # << >> => OffsetCount(bones) = PlaceholdersOfBones

\* The second mesh of a model, its stream shorter than that of the first,
\* with offsets in both tables.
C23_Witness ==
    /\ TexturesWritten
    /\ Len(model.meshes) = 2
    /\ model.active_mesh = model.meshes[2].name
    /\ model.animations # << >>
    /\ OffsetCount(EntriesOfLast(TXTR)) >= 1
    /\ OffsetCount(EntriesOfLast(BONE)) >= 2
    /\ \E i \in 1..Len(fp) :
          /\ ChunkName(i) = DSGX
          /\ WordAt(fp[i], 41) > WordAt(fp[LastChunkNamed(DSGX)], 41)

(***************************************************************************)
(* C24: the reconciled pairs of functions                                  *)
(***************************************************************************)
\* C24 as claimed: for every face and material, with any integer alpha and
\* id flag, write_face_attributes and generate_face_attributes return
\* equal lists, so the assertion of reconcile never fails while a mesh is
\* compiled.
C24_ReconcileNeverFails == err # "AssertionError"

(***************************************************************************)
(* C25: max_cull_polys                                                     *)
(***************************************************************************)
\* The polygons of the active mesh whose face normal has a dot product
\* >= 0 (< 0) with that of polygon t.
FacingWith(t) ==
    LET polygons == ActiveMesh(model).polygons
    IN  { f \in 1..Len(polygons) :
              ~RLess(dot(polygons[f].face_normal, polygons[t].face_normal), R(0, 1)) }

FacingAgainst(t) == (1..Len(ActiveMesh(model).polygons)) \ FacingWith(t)

Larger(a, b) == IF a > b THEN a ELSE b

\* n is the largest value of count(t) over the polygons, 0 without
\* polygons.
IsMaxOverPolygons(n, count(_)) ==
    LET polygons == 1..Len(ActiveMesh(model).polygons)
    IN  /\ polygons = { } => n = 0
        /\ polygons # { } => \E t \in polygons : n = count(t)
        /\ \A t \in polygons : count(t) <= n

\* C25 as claimed: the polygon count of the COST chunk is the maximum over
\* the polygons t of the larger of the number of other polygons with a dot
\* product >= 0 with t and the number of other polygons with a dot product
\* < 0.
C25_MaxOverOthers ==
    MeshCompiled =>
        IsMaxOverPolygons(CostChunkMax,
            LAMBDA t : Larger(Cardinality(FacingWith(t) \ { t }),
                              Cardinality(FacingAgainst(t) \ { t })))

\* C25 as amended: the count takes in polygon t itself (its dot product
\* with itself is >= 0): the maximum over the polygons t of the larger of
\* the number of polygons, t included, with a dot product >= 0 with t and
\* the number of polygons with a dot product < 0; 0 without polygons.
C25_MaxOverAll ==
    MeshCompiled =>
        IsMaxOverPolygons(CostChunkMax,
            LAMBDA t : Larger(Cardinality(FacingWith(t)), Cardinality(FacingAgainst(t))))

\* Three triangles, one up and two down: 2.
C25_Witness ==
    /\ MeshCompiled
    /\ Len(ActiveMesh(model).polygons) = 3
    /\ Cardinality(FacingWith(1)) = 1
    /\ Cardinality(FacingAgainst(1)) = 2
    /\ CostChunkMax = 2

(***************************************************************************)
(* C26: the matrix stack                                                   *)
(***************************************************************************)
\* Pushes minus pops among the first k instructions.
Depth(commands, k) ==
    Cardinality({ i \in 1..k : commands[i].instruction = 17 })
    - Cardinality({ i \in 1..k : commands[i].instruction = 18 })

\* C26: in the stream of a compiled mesh the pushes minus the pops, after
\* every instruction, are 0, 1 or 2, and 0 after the last; every pop
\* removes one matrix.
C26_StackBalanced ==
    MeshCompiled =>
        /\ \A k \in 0..Len(gx.commands) : Depth(gx.commands, k) \in 0..2
        /\ Depth(gx.commands, Len(gx.commands)) = 0
        /\ \A i \in 1..Len(gx.commands) :
              gx.commands[i].instruction = 18 => gx.commands[i].params = << LE32(1) >>

\* Three groups and a mixed polygon: depth 2 in both passes.
C26_Witness ==
    /\ MeshCompiled
    /\ Len(model.groups) = 3
    /\ Len(MixedOrder) >= 3
    /\ \E f \in 1..Len(ActiveMesh(model).polygons) :
          ~isMixed(ActiveMesh(model), ActiveMesh(model).polygons[f])
    /\ \E k \in MixedStart..Len(gx.commands) : Depth(gx.commands, k) = 2
    /\ \E k \in 1..(MixedStart - 1) : Depth(gx.commands, k) = 2

(***************************************************************************)
(* C27: every triangle and quad is drawn once                              *)
(***************************************************************************)
\* The vertices of polygon f are not all of one group.
SpansGroups(f) ==
    LET mesh == ActiveMesh(model)
    IN  \E i, j \in 1..Len(mesh.polygons[f].vertices) :
            mesh.vertices[mesh.polygons[f].vertices[i]].group
                # mesh.vertices[mesh.polygons[f].vertices[j]].group

\* The triangles and quads of the active mesh.
Drawn == { f \in 1..Len(ActiveMesh(model).polygons) :
               Len(ActiveMesh(model).polygons[f].vertices) \in { 3, 4 } }

\* The vertices of the polygons of one group wholly, in the order of the
\* single-group pass: per group of the model, triangles then quads, in mesh
\* order.
RECURSIVE GroupCorners(_, _, _, _)
GroupCorners(mesh, group, polytype, f) ==
    IF f > Len(mesh.polygons) THEN << >>
    ELSE (IF /\ Len(mesh.polygons[f].vertices) = polytype
             /\ ~SpansGroups(f)
             /\ mesh.vertices[mesh.polygons[f].vertices[1]].group = group
          THEN [p \in 1..polytype |-> [face |-> f, p |-> p]]
          ELSE << >>)
         \o GroupCorners(mesh, group, polytype, f + 1)

RECURSIVE SingleOrder(_)
SingleOrder(g) ==
    IF g > Len(model.groups) THEN << >>
    ELSE GroupCorners(ActiveMesh(model), model.groups[g], 3, 1)
         \o GroupCorners(ActiveMesh(model), model.groups[g], 4, 1)
         \o SingleOrder(g + 1)

\* The vertex instructions of the single-group pass.
SingleVertexIndexes ==
    SelectSeq(IndexesOf(gx.commands, { 35, 36 }), LAMBDA i : i < MixedStart)

\* The group whose bracket of the single-group pass holds instruction i.
BracketGroup(i) ==
    model.groups[1 + Cardinality({ j \in 1..i : gx.commands[j].instruction = 18 })]

RECURSIVE SumOfVertices(_)
SumOfVertices(faces) ==
    IF faces = { } THEN 0
    ELSE LET f == CHOOSE x \in faces : TRUE
         IN  Len(ActiveMesh(model).polygons[f].vertices) + SumOfVertices(faces \ { f })

\* C27: the stream of a compiled mesh holds as many vertex instructions as
\* its triangles and quads have vertices.  Those of the single-group pass
\* are the vertices of the triangles and quads of one group, each polygon
\* once, inside the bracket of its group; those of the mixed-group pass
\* are the vertices of the triangles and quads that span groups.  A mesh
\* without triangles and quads has neither vertex, normal,
\* texture-coordinate nor material instructions.
C27_EveryPolygonOnce ==
    MeshCompiled =>
        LET single == SingleVertexIndexes
            order == SingleOrder(1)
        IN  /\ CountOf(gx.commands, 35) + CountOf(gx.commands, 36) = SumOfVertices(Drawn)
            /\ Len(single) = SumOfVertices({ f \in Drawn : ~SpansGroups(f) })
            /\ Len(MixedVertexIndexes) = SumOfVertices({ f \in Drawn : SpansGroups(f) })
            /\ Len(single) = Len(order)
            /\ \A k \in 1..Len(single) :
                  /\ gx.commands[single[k]].params
                         = VertexWords(CornerLocation(order[k]), vtx10)
                  /\ BracketGroup(single[k]) = CornerGroup(order[k])
            /\ Drawn = { } =>
                  \A i \in 1..Len(gx.commands) :
                      gx.commands[i].instruction \notin { 33, 34, 35, 36, 42, 43, 49 }

\* A quad of one group, drawn, and a polygon of five vertices, not drawn.
C27_Witness ==
    /\ MeshCompiled
    /\ Len(ActiveMesh(model).polygons) = 2
    /\ Len(ActiveMesh(model).polygons[2].vertices) = 5
    /\ Drawn = { 1 }
    /\ CountOf(gx.commands, 35) = 4

\* A triangle of one group and a quad that spans two.
C27_WitnessBothPasses ==
    /\ MeshCompiled
    /\ Len(SingleVertexIndexes) = 3
    /\ Len(MixedVertexIndexes) = 4

(***************************************************************************)
(* C28: the count field of the BONE chunk                                  *)
(***************************************************************************)
\* C28 as claimed: the count field of a BONE chunk is the number of
\* entries that follow it, also when "default" is among the nodes of the
\* animation.
C28_BoneCountIsEntries ==
    BonesWritten => WordAt(fp[LastChunkNamed(BONE)], 41) = Len(EntriesOfLast(BONE))

(***************************************************************************)
(* C29: Emitter.offset and the blob of Emitter.write                       *)
(***************************************************************************)
\* One word for the opcode and one for each parameter, over all commands.
RECURSIVE WordsOf(_)
WordsOf(commands) ==
    IF commands = << >> THEN 0
    ELSE 1 + Len(Head(commands).params) + WordsOf(Tail(commands))

\* The bytes of the blob that hold the k-th instruction.
InstructionBytes(blob, commands, k) ==
    SubSeq(blob, 4 + 4 * WordsOf(SubSeq(commands, 1, k - 1)) + 1,
                 4 + 4 * WordsOf(SubSeq(commands, 1, k)))

\* C29: before write(), Emitter.offset is the sum over Emitter.commands of
\* 1 + the number of parameter words; the blob of write() in unpacked mode
\* starts with that sum as a little-endian word, is followed by 4 times
\* that sum bytes, and holds per instruction the opcode word (opcode in
\* the low byte, three zero bytes) and then its parameter words in order.
C29_OffsetAndBlob ==
    LET blob == Emitter_write(gx)
        sum == WordsOf(gx.commands)
    IN  /\ gx.offset = sum
        /\ Len(blob) >= 4
        /\ WordAt(blob, 1) = sum
        /\ Len(blob) - 4 = 4 * sum
        /\ \A k \in 1..Len(gx.commands) :
              LET c == gx.commands[k]
                  bytes == InstructionBytes(blob, gx.commands, k)
              IN  /\ Len(bytes) = 4 * (1 + Len(c.params))
                  /\ SubSeq(bytes, 1, 4) = << c.instruction, 0, 0, 0 >>
                  /\ \A j \in 1..Len(c.params) :
                        /\ Len(c.params[j]) = 4
                        /\ SubSeq(bytes, 4 * j + 1, 4 * j + 4) = c.params[j]

\* push, mtx_mult_4x4 and pop: 1 + 17 + 2 words.
C29_Witness ==
    /\ [k \in 1..Len(gx.commands) |-> gx.commands[k].instruction] = << 17, 24, 18 >>
    /\ gx.offset = 20
    /\ Len(Emitter_write(gx)) = 84

(***************************************************************************)
(* C30: texture coordinates in both passes                                 *)
(***************************************************************************)
\* The material of the polygon of a vertex has a texture.
Textured(corner) ==
    model.materials[ActiveMesh(model).polygons[corner.face].material].texture # None

\* The instructions a vertex block holds before its vertex instruction: in
\* the single-group pass the texture coordinate and the normal of a smooth
\* polygon, in the mixed-group pass everything after the push.
BlockBefore(i, corner, mixed) ==
    LET smooth == ActiveMesh(model).polygons[corner.face].smooth_shading
        before == (IF smooth THEN 1 ELSE 0)
                  + (IF mixed THEN 1 ELSE IF Textured(corner) THEN 1 ELSE 0)
    IN  { j \in (i - before)..(i - 1) : j >= 1 }

\* C30 as claimed: in both passes the vertex block of every vertex of a
\* polygon whose material has a texture holds one texture-coordinate
\* instruction (opcode 0x22 = 34) before the vertex instruction, and the
\* stream holds no texture coordinate for a polygon without texture.
C30_TexcoordPerVertex ==
    MeshCompiled =>
        LET commands == gx.commands
            single == SingleVertexIndexes
            order == SingleOrder(1)
            at == MixedVertexIndexes
            texcoords(i, corner, mixed) ==
                Cardinality({ j \in BlockBefore(i, corner, mixed) :
                                  commands[j].instruction = 34 })
        IN  /\ \A k \in 1..Len(single) :
                  Textured(order[k]) => texcoords(single[k], order[k], FALSE) = 1
            /\ \A k \in 1..Len(at) :
                  Textured(MixedOrder[k]) => texcoords(at[k], MixedOrder[k], TRUE) = 1
            /\ CountOf(commands, 34)
                   = SumOfVertices({ f \in Drawn : Textured([face |-> f, p |-> 1]) })

====
